---------------------------- MODULE Spec2Model ----------------------------
(***************************************************************************)
(* bevy_terminal_emu: the in-memory backend, the diff-sync pass, the glyph *)
(* atlas maintenance, the per-frame transform/color reset and the effect   *)
(* systems, scheduled as TerminalEmuPlugin::build schedules them.          *)
(*                                                                         *)
(* Numbers.  f32 values are modelled in fixed point: colors are            *)
(* <<r, g, b, a>> in percent (Color::srgb(0.8, 0.0, 0.0) is                *)
(* <<80, 0, 0, 100>>), scales are in percent (Vec3::ONE is 100), rotations *)
(* about z are integer angle units that compose by addition, translations  *)
(* are integer pixels, time is counted in integer clock units.             *)
(***************************************************************************)
EXTENDS Integers, Sequences, FiniteSets, TLC

\* ------------------------------------------------------------------ bounds
\* Largest flush generation the backend is driven to.
MaxGeneration == 2
\* Largest value of the frame clock (Time::elapsed), in clock units.
MaxTime == 6
\* Largest number of effect instances an external controller has spawned.
MaxEffects == 2
\* Whole numbers below this are exact as floats (2^24 for an f32).
FloatExact == 16

\* ----------------------------------------------------------- configuration
\* TerminalConfig.columns / rows of the modelled terminal.
Columns == 2
Rows == 2
NumCells == Columns * Rows
CellIdx == 0 .. (NumCells - 1)

\* TerminalConfig::default(): default_fg and default_bg.
DefaultFg == <<90, 90, 90, 100>>
DefaultBg == <<10, 10, 10, 100>>
\* Color::WHITE and Color::srgb(0, 0, 0), the colors spawn_grid starts with.
White == <<100, 100, 100, 100>>
Black == <<0, 0, 0, 100>>

\* ------------------------------------------------------------- characters
\* Characters are code points.  32 = ' ', 65 = 'A' (both printable ASCII,
\* in the start-up atlas), 161 = U+00A1 and 233 = U+00E9 (not ASCII, the font
\* has outlines for them), 9731 = U+2603 (not ASCII, the font has no outline
\* for it).
Space == 32
Chars == {32, 65, 161, 233, 9731}
AsciiChars == {c \in Chars : 32 <= c /\ c <= 126}
\* font.outline_glyph(..).is_some(): the space glyph has no outline.
HasOutline(ch) == ch \in (33 .. 126) \cup {161, 233}
\* font.glyph_id(ch) is a glyph of the font, not the missing-glyph id.
HasGlyph(ch) == ch \in (32 .. 126) \cup {161, 233}

\* --------------------------------------------------------------- colors
RatColors == {"Reset", "Red", "Blue", "White"}

ratatui_color_to_bevy(color) ==
    CASE color = "Reset" -> White
      [] color = "Red"   -> <<80, 0, 0, 100>>
      [] color = "Blue"  -> <<0, 0, 80, 100>>
      [] color = "White" -> <<100, 100, 100, 100>>

ratatui_fg_to_bevy(color, default) ==
    IF color = "Reset" THEN default ELSE ratatui_color_to_bevy(color)

ratatui_bg_to_bevy(color, default) ==
    IF color = "Reset" THEN default ELSE ratatui_color_to_bevy(color)

with_alpha(color, a) == <<color[1], color[2], color[3], a>>

\* ------------------------------------------------------------ buffer cells
\* ratatui::buffer::Cell: symbol (a string, here a sequence of code points),
\* fg, bg and the modifier bit set.
DefaultCell == [symbol |-> <<32>>, fg |-> "Reset", bg |-> "Reset", modifier |-> {}]

\* The cells the text-UI writer draws.
DrawCells ==
    { DefaultCell,
      [symbol |-> <<65>>,   fg |-> "Red",   bg |-> "Reset", modifier |-> {"BOLD"}],
      [symbol |-> <<233>>,  fg |-> "White", bg |-> "Blue",  modifier |-> {"DIM"}],
      [symbol |-> <<9731>>, fg |-> "Reset", bg |-> "Blue",
       modifier |-> {"ITALIC", "UNDERLINED"}] }

\* CellStyle::default()
DefaultCellStyle ==
    [fg |-> White, bg |-> Black, bold |-> FALSE, italic |-> FALSE,
     underlined |-> FALSE, dim |-> FALSE, symbol |-> <<32>>]

VARIABLES
    \* BevyBackend
    buffer,            \* [CellIdx -> Cell]
    dirty,             \* [CellIdx -> BOOLEAN], the backend's dirty markers
    flush_generation,  \* u64 flush counter
    \* sync.rs
    sync_gen,          \* SyncGeneration.0
    cell_style,        \* [CellIdx -> CellStyle]
    bg_color,          \* background Sprite.color of each cell
    fg_color,          \* foreground Sprite.color of each cell
    fg_index,          \* foreground Sprite.texture_atlas.index of each cell
    \* FontAtlasResource
    glyph_map,         \* function: characters in the atlas -> tile index
    pending_glyphs,    \* HashSet<char>
    \* TerminalConfig / FontAtlasResource / TerminalLayout
    config_font_size,  \* TerminalConfig.font_size
    atlas_font_size,   \* FontAtlasResource.font_size
    layout,            \* TerminalLayout: cell_width, cell_height, origin
    \* Cell entities
    base,              \* BaseTransform of each cell
    transform,         \* Transform of each cell
    \* Effect entities, in the order they were spawned
    effects,           \* sequence of [id, elapsed, active]
    \* Time and the Update schedule
    time_elapsed,      \* Time::elapsed_secs
    time_delta,        \* Time::delta_secs
    pc,                \* the system set (phase) that is running
    pendingSys,        \* the systems of that set which have not run yet
    ran,               \* the systems that ran in this frame
    \* Observation of the last operation
    lastOp,            \* name of the last system or backend operation
    syncLog,           \* what the last sync pass did
    resetLog,          \* what the last reset phase undid
    trace,             \* the runs of the first effect instance, when recorded
    \* The Mutex of TerminalResource
    holders,           \* the systems that hold a MutexGuard of the terminal
    step,              \* how far the running system has got
    lockLog,           \* what was done under the lock in this frame, in order
    \* Observation of the atlas
    config_columns,    \* TerminalConfig.columns, as the sync pass reads it
    atlasBuild,        \* the last call of build_atlas_data_for_chars: arguments and AtlasData
    input,             \* keyboard messages, ButtonInput, TerminalInputQueue and what the consumer popped
    rnd,               \* the runs of the hash-driven effect systems: clock, instance, deltas
    browser,           \* effects_browser: BrowserState (selected, active flags) and the last key
    fg_atlas,          \* glyph count of the atlas each foreground sprite's handles point to
    twin,              \* two terminals in one application: their cells and the effect entities
    gravity,           \* the Gravity entity, CellVelocity of each cell, and the steps made so far
    atlasLog,          \* the glyph map before the last expansion, and what it added
    \* A call of EffectRegion::contains
    call,              \* its arguments, the build, and what it returned
    \* The rest of BevyBackend
    cursor,            \* BevyBackend.cursor and cursor_visible
    flushes            \* how many times Backend::flush was called

backendVars == <<buffer, dirty, flush_generation>>
gridVars    == <<cell_style, bg_color, fg_color, fg_index>>
atlasVars   == <<glyph_map, pending_glyphs>>
syncVars    == <<backendVars, sync_gen, gridVars, atlasVars, syncLog>>
fontVars    == <<config_font_size, atlas_font_size, layout>>
poseVars    == <<base, transform>>
timeVars    == <<time_elapsed, time_delta>>
schedVars   == <<pc, pendingSys, ran>>
obsVars     == <<resetLog, trace>>
lockVars    == <<holders, step, lockLog>>
cursorVars  == <<cursor, flushes>>
auxVars     == <<rnd, browser, gravity, twin>>
extRest     == <<config_columns, atlasBuild, input, auxVars>>
extVars     == <<extRest, fg_atlas>>
sideVars    == <<atlasLog, call, cursorVars, extVars>>
vars        == <<syncVars, fontVars, poseVars, effects, timeVars, schedVars,
                 lastOp, obsVars, lockVars, sideVars>>

\* ------------------------------------------------------------- BevyBackend
\* The positions the text-UI writer draws at: two cells of the grid, one
\* column past the right edge and one row past the bottom edge.
DrawPositions == {<<0, 0>>, <<1, 1>>, <<Columns, 0>>, <<0, Rows>>}

\* BevyBackend::new: a buffer of default cells, generation 0.  The dirty
\* markers (dirty_cells, clear_dirty, mark_all_dirty) are used by sync.rs and
\* atlas.rs but not defined in backend.rs: a fresh backend marks every cell.
BackendNewBuffer == [i \in CellIdx |-> DefaultCell]
BackendNewDirty == [i \in CellIdx |-> TRUE]

\* Backend::draw for one (x, y, cell) item: stored only when in bounds.
BackendDraw(buf, x, y, cell) ==
    IF x < Columns /\ y < Rows
    THEN [buf EXCEPT ![y * Columns + x] = cell]
    ELSE buf

\* The dirty marker a draw leaves: the written cell is marked.
BackendDrawDirty(d, x, y) ==
    IF x < Columns /\ y < Rows
    THEN [d EXCEPT ![y * Columns + x] = TRUE]
    ELSE d

\* Backend::clear: cell.reset() on every cell.
BackendClear(buf) == [i \in DOMAIN buf |-> DefaultCell]

\* Backend::clear_region: the indices of the cells it resets, for the cursor
\* at (x, y).  The ranges are usize arithmetic on the cursor and the width.
ClearRegionRange(cur, clear_type) ==
    LET start == cur.y * Columns + cur.x
        line  == cur.y * Columns
        before == IF start <= NumCells THEN start ELSE NumCells
        eol == IF line + Columns <= NumCells THEN line + Columns ELSE NumCells
    IN  CASE clear_type = "All"          -> CellIdx
          [] clear_type = "AfterCursor"  -> {i \in CellIdx : i >= start}
          [] clear_type = "BeforeCursor" -> {i \in CellIdx : i < before}
          [] clear_type = "CurrentLine"  ->
                 {i \in CellIdx : i >= line /\ i < eol}
          [] clear_type = "UntilNewLine" ->
                 IF start < NumCells
                 THEN {i \in CellIdx : i >= start /\ i < eol}
                 ELSE {}
\* Slicing buffer[start..end] panics when start > end or start > len.
ClearRegionPanics(cur, clear_type) ==
    LET start == cur.y * Columns + cur.x
        line  == cur.y * Columns
        before == IF start <= NumCells THEN start ELSE NumCells
        eol == IF line + Columns <= NumCells THEN line + Columns ELSE NumCells
    IN  CASE clear_type = "AfterCursor"  -> start > NumCells
          [] clear_type = "CurrentLine"  -> line > eol
          [] clear_type = "UntilNewLine" ->
                 start < NumCells /\ start > eol
          [] OTHER -> FALSE

\* Backend::flush
BackendFlushNoBump(g) == g
BackendFlush(g) == g + 1

\* clear_dirty / mark_all_dirty
ClearDirtyKeeps(d) == d
ClearDirty(d) == [i \in DOMAIN d |-> FALSE]
MarkAllDirty(d) == [i \in DOMAIN d |-> TRUE]

\* ------------------------------------------------------------ CellEntityIndex
NoEntity == -1
\* CellEntityIndex::get: the cell entity at (col, row), if in bounds.  Cell
\* entities are named by their position in CellEntityIndex.entities.
CellEntityIndexGet(col, row) ==
    IF col < Columns /\ row < Rows THEN row * Columns + col ELSE NoEntity

\* ------------------------------------------------------------------- sync
\* sync.rs:58-69: the values resolved from one buffer cell.
SyncResolved(cell) ==
    [fg         |-> ratatui_fg_to_bevy(cell.fg, DefaultFg),
     bg         |-> ratatui_bg_to_bevy(cell.bg, DefaultBg),
     bold       |-> "BOLD" \in cell.modifier,
     italic     |-> "ITALIC" \in cell.modifier,
     underlined |-> "UNDERLINED" \in cell.modifier,
     dim        |-> "DIM" \in cell.modifier,
     symbol     |-> cell.symbol]

\* sync.rs:97
TargetFg(fg, dim) == IF dim THEN with_alpha(fg, 50) ELSE fg

\* sync.rs:114: symbol.chars().next().unwrap_or(' ')
FirstChar(symbol) == IF Len(symbol) = 0 THEN Space ELSE Head(symbol)

\* sync.rs:51 and grid.rs:122
SpaceIndex(map) == IF Space \in DOMAIN map THEN map[Space] ELSE 0

\* sync.rs:115-123: the tile of a character, the space tile when unmapped.
GlyphIndex(map, ch) == IF ch \in DOMAIN map THEN map[ch] ELSE SpaceIndex(map)

\* sync.rs:117-120: the character a cell queues for expansion, if any.
NewGlyphsNone(map, ch) == {}
NewGlyphs(map, ch) == IF ch \notin DOMAIN map /\ ch # Space THEN {ch} ELSE {}

\* sync.rs:32: the pass is skipped when the generation has not moved.
GenerationUnchangedNever(generation, last) == FALSE
GenerationUnchanged(generation, last) == generation = last

\* sync.rs:77-83: CellStyle is written only when some field differs.
StyleDiffersAlways(old, new) == TRUE
StyleDiffers(old, new) ==
    \/ old.fg # new.fg
    \/ old.bg # new.bg
    \/ old.bold # new.bold
    \/ old.italic # new.italic
    \/ old.underlined # new.underlined
    \/ old.dim # new.dim
    \/ old.symbol # new.symbol

\* sync.rs:102, 109, 127: a sprite field is written only when it differs.
FieldDiffers(old, new) == old # new

\* sync.rs:39-45: the indices whose dirty marker is set.
DirtyIndicesAll(d) == DOMAIN d
DirtyIndices(d) == {i \in DOMAIN d : d[i]}

\* sync.rs:54-73: the dirty indices the loop does not skip, i.e. inside the
\* buffer and with a cell entity at (idx % columns, idx / columns).
SyncProcessedStops(d, buf) ==
    {i \in DirtyIndices(d) :
        \A j \in DirtyIndices(d) :
            j <= i =>
                /\ j \in DOMAIN buf
                /\ CellEntityIndexGet(j % config_columns, j \div config_columns) # NoEntity}
SyncProcessed(d, buf) ==
    {i \in DirtyIndices(d) :
        /\ i < NumCells
        /\ i \in DOMAIN buf
        /\ CellEntityIndexGet(i % config_columns, i \div config_columns) # NoEntity}

\* The cell entity a dirty index is written to (sync.rs:58-59, 71).
SyncEntity(i) == CellEntityIndexGet(i % config_columns, i \div config_columns)

\* sync.rs:85-91: the CellStyle stored for a processed index.
SyncStoredStyleStale(cell) == [SyncResolved(cell) EXCEPT !.symbol = <<32>>]
SyncStoredStyle(cell) == SyncResolved(cell)

\* The writes (DerefMut on a component, with the value before and after) one
\* pass performs, component by component.
\* sync.rs:76-93, CellStyle.
StyleWrites(d, buf, style) ==
    { [cell |-> SyncEntity(i), old |-> style[SyncEntity(i)],
       new |-> SyncStoredStyle(buf[i])] :
      i \in {j \in SyncProcessed(d, buf) :
                StyleDiffers(style[SyncEntity(j)], SyncResolved(buf[j]))} }

\* sync.rs:101-105, the background sprite's color.
BgWrites(d, buf, bgc) ==
    { [cell |-> SyncEntity(i), old |-> bgc[SyncEntity(i)],
       new |-> SyncResolved(buf[i]).bg] :
      i \in {j \in SyncProcessed(d, buf) :
                FieldDiffers(bgc[SyncEntity(j)], SyncResolved(buf[j]).bg)} }

\* sync.rs:108-111, the foreground sprite's color.
SyncTargetFg(cell) == TargetFg(SyncResolved(cell).fg, SyncResolved(cell).dim)

FgWrites(d, buf, fgc) ==
    { [cell |-> SyncEntity(i), old |-> fgc[SyncEntity(i)],
       new |-> SyncTargetFg(buf[i])] :
      i \in {j \in SyncProcessed(d, buf) :
                FieldDiffers(fgc[SyncEntity(j)], SyncTargetFg(buf[j]))} }

\* sync.rs:113-131, the foreground sprite's tile index.
SyncGlyphIndex(cell, map) == GlyphIndex(map, FirstChar(cell.symbol))

IndexWrites(d, buf, fgi, map) ==
    { [cell |-> SyncEntity(i), old |-> fgi[SyncEntity(i)],
       new |-> SyncGlyphIndex(buf[i], map)] :
      i \in {j \in SyncProcessed(d, buf) :
                FieldDiffers(fgi[SyncEntity(j)], SyncGlyphIndex(buf[j], map))} }

\* A component map after the writes of one pass were applied to it.
ApplyWrites(f, writes) ==
    [e \in DOMAIN f |->
        IF \E w \in writes : w.cell = e
        THEN (CHOOSE w \in writes : w.cell = e).new
        ELSE f[e]]

NoWrites == [style |-> {}, bg |-> {}, fg |-> {}, index |-> {}]

\* sync.rs:137-140: the characters queued by one pass.
SyncNewGlyphs(d, buf, map) ==
    UNION {NewGlyphs(map, FirstChar(buf[i].symbol)) : i \in SyncProcessed(d, buf)}

\* sync_buffer_to_entities, the whole system.
SyncBody ==
    IF GenerationUnchanged(flush_generation, sync_gen)
    THEN /\ UNCHANGED <<backendVars, sync_gen, gridVars, atlasVars>>
         /\ syncLog' = [skipped |-> TRUE,
                        processed |-> {}, writes |-> NoWrites]
    ELSE LET writes == [style |-> StyleWrites(dirty, buffer, cell_style),
                        bg    |-> BgWrites(dirty, buffer, bg_color),
                        fg    |-> FgWrites(dirty, buffer, fg_color),
                        index |-> IndexWrites(dirty, buffer, fg_index, glyph_map)]
         IN  /\ sync_gen' = flush_generation
             /\ dirty' = ClearDirty(dirty)
             /\ cell_style' = ApplyWrites(cell_style, writes.style)
             /\ bg_color' = ApplyWrites(bg_color, writes.bg)
             /\ fg_color' = ApplyWrites(fg_color, writes.fg)
             /\ fg_index' = ApplyWrites(fg_index, writes.index)
             /\ pending_glyphs' =
                    pending_glyphs \cup SyncNewGlyphs(dirty, buffer, glyph_map)
             /\ syncLog' = [skipped |-> FALSE,
                            processed |-> SyncProcessed(dirty, buffer),
                            writes |-> writes]
             /\ UNCHANGED <<buffer, flush_generation, glyph_map>>

\* ------------------------------------------------------------------ atlas
\* build_atlas_data_for_chars, atlas.rs:90-91: glyph i of the (sorted) list
\* gets tile index i, so a character's index is its rank in the set.
BuildGlyphMapReversed(chars) == [c \in chars |-> Cardinality({d \in chars : d > c})]
BuildGlyphMap(chars) ==
    [c \in chars |-> Cardinality({d \in chars : d < c})]

\* generate_font_atlas: the start-up atlas holds the printable ASCII set.
StartupGlyphMap == BuildGlyphMap(AsciiChars)

\* expand_font_atlas, atlas.rs:216-223: the pending characters that the font
\* has an outline for.
ExpandNewCharsUnfiltered(pending) == pending
ExpandNewChars(pending) == {ch \in pending : HasOutline(ch)}

\* expand_font_atlas, atlas.rs:209: pending_glyphs.drain() empties the set,
\* whatever becomes of the characters taken from it.
DrainPendingKeepsDropped(pending) == {ch \in pending : ~HasOutline(ch)}
DrainPending(pending) == {}

\* expand_font_atlas, atlas.rs:229-236: the calls of
\* build_atlas_data_for_chars one pass makes.
ExpandBuildsPerChar(pending) == Cardinality(ExpandNewChars(pending))
ExpandBuilds(pending) == IF ExpandNewChars(pending) = {} THEN 0 ELSE 1

\* What one pass of expand_font_atlas did: the glyph map it found, the
\* pending set it drained and the insertions that had filled it, the
\* characters it added and the atlases it built.
ExpandLog(log, map, pending) ==
    [before |-> map, added |-> ExpandNewChars(pending), requests |-> 0,
     served |-> log.requests, drained |-> pending, builds |-> ExpandBuilds(pending)]

\* atlas.rs:237-256 and 315-325: every foreground sprite gets the handles of
\* the image and layout just built, an atlas of as many glyphs as the map has.
SpriteAtlasKeeps(old, map) == old
SpriteAtlas(old, map) == [e \in DOMAIN old |-> Cardinality(DOMAIN map)]

\* expand_font_atlas, the whole system.
ExpandBody ==
    IF pending_glyphs = {}
    THEN UNCHANGED <<backendVars, gridVars, atlasVars, fg_atlas>>
    ELSE /\ pending_glyphs' = DrainPending(pending_glyphs)
         /\ IF ExpandNewChars(pending_glyphs) = {}
            THEN UNCHANGED <<backendVars, gridVars, glyph_map, fg_atlas>>
            ELSE /\ glyph_map' =
                      BuildGlyphMap(DOMAIN glyph_map \cup ExpandNewChars(pending_glyphs))
                 /\ fg_atlas' = SpriteAtlas(fg_atlas, glyph_map')
                 /\ dirty' = MarkAllDirty(dirty)
                 /\ UNCHANGED <<buffer, flush_generation, gridVars>>

\* ----------------------------------------------------------------- layout
\* The sizes TerminalConfig.font_size takes.
FontSizes == {20, 40}
StartFontSize == 20

\* compute_cell_size with the ceil of TerminalLayout::from_config: the font's
\* advance width is 0.6 em and its ascent minus descent 1.3 em.
CellWidthOf(font_size) == (6 * font_size + 9) \div 10
CellHeightOf(font_size) == (13 * font_size + 9) \div 10

\* TerminalLayout::from_config, lib.rs:157-176, with no origin override.
LayoutFromConfig(font_size) ==
    [cell_width  |-> CellWidthOf(font_size),
     cell_height |-> CellHeightOf(font_size),
     origin_x    |-> 0 - ((Columns * CellWidthOf(font_size)) \div 2),
     origin_y    |-> (Rows * CellHeightOf(font_size)) \div 2]

\* grid.rs:128-132 and atlas.rs:305-310: the resting translation of a cell.
WorldX(l, col) == l.origin_x + col * l.cell_width + l.cell_width \div 2
WorldY(l, row) == l.origin_y - row * l.cell_height - l.cell_height \div 2

ColOf(e) == e % Columns
RowOf(e) == e \div Columns

\* spawn_grid: BaseTransform and Transform of cell e (Quat::IDENTITY is
\* rotation 0, Vec3::ONE is scale 100).
SpawnPose(l, e) ==
    [x |-> WorldX(l, ColOf(e)), y |-> WorldY(l, RowOf(e)), rot |-> 0, scale |-> 100]

\* rebuild_font_atlas, atlas.rs:304-313: only the translation is rewritten.
RebuildPoseKeeps(pose, l, e) == pose
RebuildPose(pose, l, e) ==
    [pose EXCEPT !.x = WorldX(l, ColOf(e)), !.y = WorldY(l, RowOf(e))]

\* rebuild_font_atlas, the whole system (the window scale factor is fixed).
RebuildBodyDrifts ==
    IF config_font_size = atlas_font_size
    THEN /\ base' = [e \in CellIdx |-> [base[e] EXCEPT !.x = transform[e].x]]
         /\ UNCHANGED <<fontVars, transform, glyph_map, fg_atlas>>
    ELSE /\ layout' = LayoutFromConfig(config_font_size)
         /\ glyph_map' = BuildGlyphMap(DOMAIN glyph_map)
         /\ fg_atlas' = SpriteAtlas(fg_atlas, glyph_map')
         /\ atlas_font_size' = config_font_size
         /\ base' = [e \in CellIdx |->
                        RebuildPose(base[e], LayoutFromConfig(config_font_size), e)]
         /\ transform' = [e \in CellIdx |->
                        RebuildPose(transform[e], LayoutFromConfig(config_font_size), e)]
         /\ UNCHANGED config_font_size
RebuildBody ==
    IF config_font_size = atlas_font_size
    THEN UNCHANGED <<fontVars, poseVars, glyph_map, fg_atlas>>
    ELSE /\ layout' = LayoutFromConfig(config_font_size)
         /\ glyph_map' = BuildGlyphMap(DOMAIN glyph_map)
         /\ fg_atlas' = SpriteAtlas(fg_atlas, glyph_map')
         /\ atlas_font_size' = config_font_size
         /\ base' = [e \in CellIdx |->
                        RebuildPose(base[e], LayoutFromConfig(config_font_size), e)]
         /\ transform' = [e \in CellIdx |->
                        RebuildPose(transform[e], LayoutFromConfig(config_font_size), e)]
         /\ UNCHANGED config_font_size

\* ---------------------------------------------------------------- regions
\* GridRect::contains, effects/mod.rs:25-30.  Its fields and arguments are
\* u16 and so are the sums col + width and row + height: a release build
\* wraps them at 2^16,
U16Add(a, b) == (a + b) % 65536
RectContains(rect, col, row) ==
    /\ col >= rect.col
    /\ col < U16Add(rect.col, rect.width)
    /\ row >= rect.row
    /\ row < U16Add(rect.row, rect.height)

\* and a debug build panics on the first sum that overflows; && evaluates
\* the second sum only when the three comparisons before it hold.
RectOverflows(rect, col, row) ==
    /\ col >= rect.col
    /\ \/ rect.col + rect.width > 65535
       \/ /\ col < rect.col + rect.width
          /\ row >= rect.row
          /\ rect.row + rect.height > 65535
RectOutcome(rect, col, row, build) ==
    IF build = "debug" /\ RectOverflows(rect, col, row) THEN "panic"
    ELSE IF RectContains(rect, col, row) THEN "true" ELSE "false"

\* EffectRegion::contains, effects/mod.rs:45-66.
RegionContains(region, col, row) ==
    IF \E i \in 1 .. Len(region.exclude) : RectContains(region.exclude[i], col, row)
    THEN FALSE
    ELSE IF Len(region.include) = 0
         THEN TRUE
         ELSE \E i \in 1 .. Len(region.include) :
                 RectContains(region.include[i], col, row)

\* EffectRegion::contains as a call: the rectangles are tried in list order
\* and the first that contains the cell, or panics, ends the loop.
FirstHit(rects, col, row, build) ==
    LET hits == {i \in 1 .. Len(rects) : RectOutcome(rects[i], col, row, build) # "false"}
    IN  IF hits = {} THEN "false"
        ELSE RectOutcome(rects[CHOOSE i \in hits : \A j \in hits : i <= j], col, row, build)
RegionOutcome(region, col, row, build) ==
    CASE FirstHit(region.exclude, col, row, build) = "panic" -> "panic"
      [] FirstHit(region.exclude, col, row, build) = "true"  -> "false"
      [] OTHER -> IF Len(region.include) = 0 THEN "true"
                  ELSE FirstHit(region.include, col, row, build)

Rect(c, r, w, h) == [col |-> c, row |-> r, width |-> w, height |-> h]
\* EffectRegion::all and EffectRegion::full_screen
RegionAll == [include |-> <<>>, exclude |-> <<>>]
RegionFullScreen(cols, rows) == [include |-> <<Rect(0, 0, cols, rows)>>, exclude |-> <<>>]
\* Regions an external controller gives its effects.
RegionTopRow == [include |-> <<Rect(0, 0, Columns, 1)>>, exclude |-> <<>>]
RegionNotOrigin == [include |-> <<>>, exclude |-> <<Rect(0, 0, 1, 1)>>]
RegionTopRowNotOrigin ==
    [include |-> <<Rect(0, 0, Columns, 1)>>, exclude |-> <<Rect(0, 0, 1, 1)>>]

\* ------------------------------------------------------------ simple_hash
\* u32 values are pairs <<hi, lo>> of 16-bit halves; all arithmetic wraps at
\* 2^32 as wrapping_mul / wrapping_add do.
U32(n) == <<n \div 65536, n % 65536>>

RECURSIVE Xor16(_, _, _)
Xor16(a, b, bits) ==
    IF bits = 0 THEN 0
    ELSE ((a + b) % 2) + 2 * Xor16(a \div 2, b \div 2, bits - 1)

\* The low 16 bits of a * b, and bits 16..31 of a * b, for 16-bit a and b.
MulLo16(a, b) == (a * (b % 256) + ((a * (b \div 256)) % 256) * 256) % 65536
MulHi16(a, b) ==
    LET p1 == a * (b % 256)
        p2 == a * (b \div 256)
        q  == (p2 % 256) * 256 + p1
    IN  (p2 \div 256 + q \div 65536) % 65536

WrappingMul(a, b) ==
    <<(MulHi16(a[2], b[2]) + MulLo16(a[1], b[2]) + MulLo16(a[2], b[1])) % 65536,
      MulLo16(a[2], b[2])>>
WrappingAdd(a, b) ==
    <<(a[1] + b[1] + (a[2] + b[2]) \div 65536) % 65536, (a[2] + b[2]) % 65536>>
Shr16(h) == <<0, h[1]>>
Shr13(h) == <<h[1] \div 8192, ((h[1] * 8) % 65536) + (h[2] \div 8192)>>
Xor32(a, b) == <<Xor16(a[1], b[1], 16), Xor16(a[2], b[2], 16)>>

\* 2654435761, 2246822519 and 3266489917
HashK1 == <<40503, 31153>>
HashK2 == <<34283, 51831>>
HashK3 == <<49842, 44605>>

\* effects/mod.rs:104-112
simple_hash(a, b) ==
    LET h0 == WrappingAdd(WrappingMul(a, HashK1), WrappingMul(b, HashK2))
        h1 == Xor32(h0, Shr16(h0))
        h2 == WrappingMul(h1, HashK2)
        h3 == Xor32(h2, Shr13(h2))
        h4 == WrappingMul(h3, HashK3)
    IN  Xor32(h4, Shr16(h4))

\* h % m for a u32 h and m < 2^15
Mod32(h, m) == ((h[1] % m) * (65536 % m) + h[2]) % m

\* (h % 10000) as f32 / 10000.0, in units of 1/10000
HashFrac(cell_id, salt) == Mod32(simple_hash(U32(cell_id), U32(salt)), 10000)

\* ------------------------------------------------------------- arithmetic
Max(a, b) == IF a >= b THEN a ELSE b
Min(a, b) == IF a <= b THEN a ELSE b
Abs(a) == IF a >= 0 THEN a ELSE 0 - a
\* a * b / c rounded toward zero, as an f32 product is rounded to the grid
MulDiv(a, b, c) ==
    IF a * b >= 0 THEN (a * b) \div c ELSE 0 - ((0 - a * b) \div c)
\* floor of the square root
ISqrt(n) == CHOOSE r \in 0 .. n : r * r <= n /\ (r + 1) * (r + 1) > n
\* sin of a whole number of quarter turns, in percent
Sin4(q) == CASE q % 4 = 0 -> 0 [] q % 4 = 1 -> 100 [] q % 4 = 2 -> 0 [] q % 4 = 3 -> -100

\* f32 sums.  A float keeps a fixed number of significant bits: whole numbers
\* below FloatExact are exact, from there to twice that only every second
\* one is representable, then every fourth, and so on; a sum is rounded to
\* the nearest representable value, a tie to the one with the even
\* significand.  (An f32 has 24 bits; FloatExact scales that down.)
RECURSIVE Ulp(_)
Ulp(x) == IF x < FloatExact THEN 1 ELSE 2 * Ulp(x \div 2)
F32Round(x) ==
    LET u == Ulp(x)
        lo == (x \div u) * u
    IN  IF 2 * (x - lo) < u THEN lo
        ELSE IF 2 * (x - lo) > u THEN lo + u
        ELSE IF (lo \div u) % 2 = 0 THEN lo ELSE lo + u
F32Add(a, b) == F32Round(a + b)

\* ---------------------------------------------------------------- effects
\* Units.  Time is counted in clock units (a frame lasts 1 or 2 of them),
\* lengths in pixels, rotations about z in milliradians (composing two
\* rotations about z adds their angles), scales in percent, directions in
\* thousandths, angles of Slash and Knock in quarter turns, and the phase of
\* Breathe and Glow in quarter turns per clock unit.

\* The effect components an external controller spawns, with the parameters
\* it gives them.  An instance refers to its entry by position.
BrowserCatalog ==
    << [kind |-> "breathe", region |-> RegionAll,
        min_scale |-> 80, max_scale |-> 120, speed |-> 1, phase_spread |-> 0],
       [kind |-> "glow", region |-> RegionAll,
        speed |-> 1, intensity |-> 50, spread |-> 0],
       [kind |-> "tint", region |-> RegionTopRow,
        color |-> <<0, 0, 100, 100>>, strength |-> 50],
       [kind |-> "scatter", region |-> RegionAll,
        origin_col |-> 0, origin_row |-> 0, speed |-> 10, duration |-> 2, spin |-> 300],
       [kind |-> "knock", region |-> RegionNotOrigin,
        angle |-> 0, amplitude |-> 2, deviation |-> 0, rotation |-> 100, duration |-> 2],
       [kind |-> "collapse", region |-> RegionAll,
        gravity |-> 8, duration |-> 3, stagger_per_row |-> 1],
       [kind |-> "explode", region |-> RegionAll,
        origin_col |-> 0, origin_row |-> 0, force |-> 10, chaos |-> 0, duration |-> 2],
       [kind |-> "slash", region |-> RegionFullScreen(Columns, Rows),
        amplitude |-> 8, width |-> 4, angle |-> 0, duration |-> 2] >>

\* The same effects on part of the grid: the top row, everything but the
\* origin, and the top row without the origin.
RegionCatalog ==
    << [kind |-> "breathe", region |-> RegionTopRow,
        min_scale |-> 80, max_scale |-> 120, speed |-> 1, phase_spread |-> 0],
       [kind |-> "glow", region |-> RegionNotOrigin,
        speed |-> 1, intensity |-> 50, spread |-> 0],
       [kind |-> "scatter", region |-> RegionTopRowNotOrigin,
        origin_col |-> 0, origin_row |-> 0, speed |-> 10, duration |-> 2, spin |-> 300],
       [kind |-> "collapse", region |-> RegionNotOrigin,
        gravity |-> 8, duration |-> 3, stagger_per_row |-> 1],
       [kind |-> "explode", region |-> RegionTopRow,
        origin_col |-> 0, origin_row |-> 0, force |-> 10, chaos |-> 0, duration |-> 2],
       [kind |-> "slash", region |-> RegionTopRowNotOrigin,
        amplitude |-> 8, width |-> 4, angle |-> 0, duration |-> 2] >>
\* Effects with a region of zero area: every include rectangle has width 0
\* or height 0 (the last one with a width that passes 65535 from its column);
\* and effects whose origin is no cell of the grid.
RegionZeroWidth == [include |-> <<Rect(0, 0, 0, Rows)>>, exclude |-> <<>>]
RegionZeroHeight == [include |-> <<Rect(0, 0, Columns, 0)>>, exclude |-> <<>>]
RegionZeroBoth == [include |-> <<Rect(1, 0, 0, 1), Rect(0, 1, 1, 0)>>, exclude |-> <<>>]
RegionZeroHeightWide == [include |-> <<Rect(1, 0, 65535, 0)>>, exclude |-> <<>>]
DegenerateCatalog ==
    << [kind |-> "scatter", region |-> RegionZeroWidth,
        origin_col |-> 0, origin_row |-> 0, speed |-> 10, duration |-> 2, spin |-> 300],
       [kind |-> "slash", region |-> RegionZeroHeight,
        amplitude |-> 8, width |-> 4, angle |-> 0, duration |-> 2],
       [kind |-> "tint", region |-> RegionZeroBoth,
        color |-> <<0, 0, 100, 100>>, strength |-> 50],
       [kind |-> "breathe", region |-> RegionZeroHeightWide,
        min_scale |-> 80, max_scale |-> 120, speed |-> 1, phase_spread |-> 0],
       [kind |-> "scatter", region |-> RegionAll,
        origin_col |-> Columns + 3, origin_row |-> 0 - 1, speed |-> 10, duration |-> 2, spin |-> 300],
       [kind |-> "explode", region |-> RegionTopRow,
        origin_col |-> 0, origin_row |-> Rows, force |-> 10, chaos |-> 0, duration |-> 2] >>
\* A collapse that lasts longer than FloatExact clock units.
LongCatalog ==
    << [kind |-> "collapse", region |-> RegionTopRow,
        gravity |-> 1, duration |-> 20, stagger_per_row |-> 0] >>

Catalog == BrowserCatalog \o RegionCatalog \o DegenerateCatalog \o LongCatalog

EffectIds == 1 .. Len(BrowserCatalog)
GateIds == {id \in 1 .. Len(BrowserCatalog \o RegionCatalog) : Catalog[id].region \notin {RegionAll, RegionFullScreen(Columns, Rows)}}
OneShotKinds == {"collapse", "scatter", "explode", "slash", "knock"}
OneShotIds == {id \in EffectIds : Catalog[id].kind \in OneShotKinds}
KindOf(inst) == Catalog[inst.id].kind
IsOneShot(inst) == KindOf(inst) \in OneShotKinds

\* A freshly spawned instance: elapsed 0.0, active true (the Default impls).
SpawnInstance(id) == [id |-> id, elapsed |-> 0, active |-> TRUE]

\* The prologue every one-shot system runs on an instance (collapse.rs:40-49,
\* scatter.rs:50-59, explode.rs:50-59, slash.rs:51-60, knock.rs:50-59).
StepOneShotKeepsRunning(inst, dt) ==
    IF ~inst.active THEN inst ELSE [inst EXCEPT !.elapsed = inst.elapsed + dt]
StepOneShot(inst, dt) ==
    IF ~inst.active
    THEN inst
    ELSE IF F32Add(inst.elapsed, dt) > Catalog[inst.id].duration
         THEN [inst EXCEPT !.elapsed = F32Add(inst.elapsed, dt), !.active = FALSE]
         ELSE [inst EXCEPT !.elapsed = F32Add(inst.elapsed, dt)]

\* Whether the system goes on to the cell loop for an instance: it was active
\* and the prologue left it active.
Displaces(before, after) == before.active /\ after.active

\* The direction from an origin cell to a cell, in pixels, its length and the
\* unit vector (scatter.rs:70-76, explode.rs:84-90).  A length of zero is
\* raised to 0.001, which leaves the unit vector zero.
RadialDx(p, l, col) == (col - p.origin_col) * l.cell_width
RadialDy(p, l, row) == (row - p.origin_row) * (0 - l.cell_height)
RadialDist(p, l, col, row) ==
    ISqrt(RadialDx(p, l, col) * RadialDx(p, l, col)
          + RadialDy(p, l, row) * RadialDy(p, l, row))
UnitOf(d, dist) == IF dist = 0 THEN 0 ELSE MulDiv(d, 1000, dist)

\* collapse.rs:56-63
CollapseApplyNoStagger(p, elapsed, row, pose) ==
    [pose EXCEPT !.y = pose.y - (p.gravity * elapsed * elapsed) \div 2]
CollapseApply(p, elapsed, row, pose) ==
    LET t == Max(elapsed - row * p.stagger_per_row, 0)
        fall == (p.gravity * t * t) \div 2
    IN  [pose EXCEPT !.y = pose.y - fall]

\* scatter.rs:70-89
ScatterApply(p, elapsed, l, col, row, pose) ==
    LET dist == RadialDist(p, l, col, row)
        displacement == p.speed * elapsed
        angle == MulDiv(p.spin * elapsed, 1000 + dist, 1000)
        scale == 100 - (80 * elapsed) \div p.duration
    IN  [x     |-> pose.x + MulDiv(UnitOf(RadialDx(p, l, col), dist), displacement, 1000),
         y     |-> pose.y + MulDiv(UnitOf(RadialDy(p, l, row), dist), displacement, 1000),
         rot   |-> angle,
         scale |-> Max(scale, 0)]

\* cos and sin of a small angle in milliradians, in thousandths, to second
\* order; exact at 0.
CosMrad(a) == 1000 - (a * a) \div 2000000
SinMrad(a) == a

\* explode.rs:69-116
ExplodeApply(p, elapsed, l, col, row, pose) ==
    LET cell_id == col * 1000 + row
        r1 == HashFrac(cell_id, 111)
        r2 == HashFrac(cell_id, 222)
        r3 == HashFrac(cell_id, 333)
        r4 == HashFrac(cell_id, 444)
        dist == RadialDist(p, l, col, row)
        nx == UnitOf(RadialDx(p, l, col), dist)
        ny == UnitOf(RadialDy(p, l, row), dist)
        angle_offset == MulDiv(MulDiv(r1 - 5000, 3142, 10000), p.chaos, 100)
        dir_x == MulDiv(nx, CosMrad(angle_offset), 1000) - MulDiv(ny, SinMrad(angle_offset), 1000)
        dir_y == MulDiv(nx, SinMrad(angle_offset), 1000) + MulDiv(ny, CosMrad(angle_offset), 1000)
        speed_mult == 10000 + MulDiv(r2 - 5000, p.chaos, 100)
        displacement == MulDiv(p.force * elapsed, speed_mult, 10000)
        spin_dir == IF r3 > 5000 THEN 1 ELSE 0 - 1
        spin_speed == 2000 + (6 * r3) \div 10
        timing_offset == MulDiv(MulDiv(r4 - 5000, 30, 10000), p.chaos, 100)
        shrink_progress == Min(Max((100 * elapsed) \div p.duration + timing_offset, 0), 100)
    IN  [x     |-> pose.x + MulDiv(dir_x, displacement, 1000),
         y     |-> pose.y + MulDiv(dir_y, displacement, 1000),
         rot   |-> spin_dir * spin_speed * elapsed,
         scale |-> Max(100 - shrink_progress, 0)]

\* cos and sin of a whole number of quarter turns, in thousandths
CosQuarter(q) == CASE q % 4 = 0 -> 1000 [] q % 4 = 1 -> 0 [] q % 4 = 2 -> -1000 [] q % 4 = 3 -> 0
SinQuarter(q) == CASE q % 4 = 0 -> 0 [] q % 4 = 1 -> 1000 [] q % 4 = 2 -> 0 [] q % 4 = 3 -> -1000

\* slash.rs:83-95: centre and half extents of the first include rect, in
\* thousandths of a cell, or the fallback when the region includes nothing.
SlashFrame(region, along_x, along_y, perp_x, perp_y) ==
    IF Len(region.include) > 0
    THEN LET rect == region.include[1]
             ex == rect.width * 500
             ey == rect.height * 500
         IN  [cx |-> rect.col * 1000 + ex, cy |-> rect.row * 1000 + ey,
              half_along |-> Abs(MulDiv(ex, along_x, 1000)) + Abs(MulDiv(ey, along_y, 1000)),
              half_perp  |-> Abs(MulDiv(ex, perp_x, 1000)) + Abs(MulDiv(ey, perp_y, 1000))]
    ELSE [cx |-> 75000, cy |-> 25000, half_along |-> 50000, half_perp |-> 25000]

\* slash.rs:62-145: the strength of the cut at a cell, in thousandths, 0 for
\* a cell the loop skips; and the side of the line the cell is on.
SlashSide(p, col, row) ==
    LET along_x == CosQuarter(p.angle)
        along_y == SinQuarter(p.angle)
        f == SlashFrame(p.region, along_x, along_y, 0 - along_y, along_x)
        center_perp == MulDiv(f.cx, 0 - along_y, 1000) + MulDiv(f.cy, along_x, 1000)
        cell_perp == col * (0 - along_y) + row * along_x
    IN  IF cell_perp >= center_perp THEN 1 ELSE 0 - 1
SlashStrength(p, elapsed, col, row) ==
    LET progress == (1000 * elapsed) \div p.duration
        cut_phase == Min(progress, 500) * 2
        tc == (progress - 500) * 2
        close_phase == IF progress > 500 THEN 1000 - (tc * tc) \div 1000 ELSE 1000
        along_x == CosQuarter(p.angle)
        along_y == SinQuarter(p.angle)
        perp_x == 0 - along_y
        perp_y == along_x
        f == SlashFrame(p.region, along_x, along_y, perp_x, perp_y)
        center_along == MulDiv(f.cx, along_x, 1000) + MulDiv(f.cy, along_y, 1000)
        center_perp == MulDiv(f.cx, perp_x, 1000) + MulDiv(f.cy, perp_y, 1000)
        blade_start == center_along - f.half_along
        blade_end == center_along + f.half_along
        blade_pos == blade_start + MulDiv(cut_phase, blade_end - blade_start, 1000)
        half_width == p.width * 500
        cell_along == col * along_x + row * along_y
        cell_perp == col * perp_x + row * perp_y
        perp_dist == Abs(cell_perp - center_perp)
        perp_t == 1000 - (perp_dist * 1000) \div Max(half_width, 1)
        perp_strength == (((perp_t * perp_t) \div 1000) * (3000 - 2 * perp_t)) \div 1000
        along_dist == Abs(cell_along - center_along)
        along_t == Max(1000 - (along_dist * 1000) \div Max(f.half_along, 1000), 0)
        tip_blend == Min((blade_pos - cell_along) \div 2, 1000)
    IN  IF perp_dist >= half_width \/ cell_along > blade_pos
        THEN 0
        ELSE MulDiv(MulDiv(MulDiv(perp_strength, along_t, 1000), tip_blend, 1000),
                    close_phase, 1000)

\* slash.rs:147-161
SlashApply(p, elapsed, l, col, row, pose) ==
    LET strength == SlashStrength(p, elapsed, col, row)
        side == SlashSide(p, col, row)
        perp_x == 0 - SinQuarter(p.angle)
        perp_y == CosQuarter(p.angle)
        disp == p.amplitude * strength * side
    IN  [x     |-> pose.x + MulDiv(MulDiv(perp_x, disp, 1000), l.cell_width, 1000),
         y     |-> pose.y + MulDiv(MulDiv(perp_y, disp, 1000), 0 - l.cell_height, 1000),
         rot   |-> pose.rot + MulDiv(80, strength * side, 1000),
         scale |-> MulDiv(pose.scale, 100 + strength \div 100, 100)]

\* knock.rs:61-69: progress * exp(-4 * progress) over its peak 0.25 / e, in
\* percent, tabulated at the quarters of the duration.
KnockStrength(elapsed, duration) ==
    CASE (4 * elapsed) \div duration = 0 -> 0
      [] (4 * elapsed) \div duration = 1 -> 100
      [] (4 * elapsed) \div duration = 2 -> 74
      [] (4 * elapsed) \div duration = 3 -> 41
      [] OTHER -> 20

\* knock.rs:79-103
KnockApply(p, elapsed, l, col, row, pose) ==
    LET strength == KnockStrength(elapsed, p.duration)
        base_dx == CosQuarter(p.angle)
        base_dy == SinQuarter(p.angle)
        cell_id == col * 1000 + row
        r1 == HashFrac(cell_id, 777)
        r2 == HashFrac(cell_id, 888)
        angle_dev == MulDiv(MulDiv(r1 - 5000, 2, 10), p.deviation, 1000)
        dx == MulDiv(base_dx, CosMrad(angle_dev), 1000) - MulDiv(base_dy, SinMrad(angle_dev), 1000)
        dy == MulDiv(base_dx, SinMrad(angle_dev), 1000) + MulDiv(base_dy, CosMrad(angle_dev), 1000)
        amp_mult == 8500 + (3 * r2) \div 10
        disp == p.amplitude * amp_mult * strength
        rot_dir == IF r1 > 5000 THEN 1 ELSE 0 - 1
        rot == MulDiv(p.rotation * amp_mult, strength * rot_dir, 1000000)
    IN  [x     |-> pose.x + MulDiv(dx, MulDiv(disp, l.cell_width, 1000), 1000000),
         y     |-> pose.y + MulDiv(dy, MulDiv(disp, 0 - l.cell_height, 1000), 1000000),
         rot   |-> pose.rot + rot,
         scale |-> pose.scale]

\* breathe.rs:41-54 and glow.rs:45-47: sin(TAU * speed * t + phase_offset),
\* in percent; the offset of a cell is weighted by col_weight and row_weight
\* (tenths) and the spread.
WaveAt(speed, t, spread, col_weight, row_weight, col, row) ==
    Sin4(speed * t + ((col_weight * col + row_weight * row) * spread) \div 10)

\* breathe.rs:41-54
BreatheApply(p, t, col, row, pose) ==
    LET mid == (p.min_scale + p.max_scale) \div 2
        range == (p.max_scale - p.min_scale) \div 2
        wave == WaveAt(p.speed, t, p.phase_spread, 7, 11, col, row)
    IN  [pose EXCEPT !.scale = mid + MulDiv(range, wave, 100)]

\* glow.rs:45-51, the cell transform
GlowApply(p, t, col, row, pose) ==
    LET wave == WaveAt(p.speed, t, p.spread, 5, 8, col, row)
    IN  [pose EXCEPT !.scale = MulDiv(pose.scale, 100 + MulDiv(5, wave, 100), 100)]

\* glow.rs:54-60, the foreground sprite
GlowColor(p, t, col, row, color) ==
    LET wave == WaveAt(p.speed, t, p.spread, 5, 8, col, row)
        new_alpha == MulDiv(color[4], 100 + MulDiv(p.intensity, wave, 100), 100)
    IN  with_alpha(color, Min(Max(new_alpha, 0), 100))

\* tint.rs:26-44
TintColor(p, color) ==
    LET s == Min(Max(p.strength, 0), 100)
    IN  << color[1] + MulDiv(p.color[1] - color[1], s, 100),
           color[2] + MulDiv(p.color[2] - color[2], s, 100),
           color[3] + MulDiv(p.color[3] - color[3], s, 100),
           color[4] >>

\* The cell loop of one instance on one cell's Transform: the region test,
\* then the effect's own arithmetic.  A one-shot uses its elapsed time, a
\* continuous effect Time::elapsed_secs.
InstPose(inst, t, l, e, pose) ==
    LET p == Catalog[inst.id]
        col == ColOf(e)
        row == RowOf(e)
    IN  IF ~RegionContains(p.region, col, row)
        THEN pose
        ELSE CASE p.kind = "breathe"  -> BreatheApply(p, t, col, row, pose)
               [] p.kind = "glow"     -> GlowApply(p, t, col, row, pose)
               [] p.kind = "collapse" -> CollapseApply(p, inst.elapsed, row, pose)
               [] p.kind = "scatter"  -> ScatterApply(p, inst.elapsed, l, col, row, pose)
               [] p.kind = "explode"  -> ExplodeApply(p, inst.elapsed, l, col, row, pose)
               [] p.kind = "slash"    -> SlashApply(p, inst.elapsed, l, col, row, pose)
               [] p.kind = "knock"    -> KnockApply(p, inst.elapsed, l, col, row, pose)
               [] OTHER               -> pose

\* The same for the cell's foreground sprite colour.
InstColorUngated(inst, t, e, color) ==
    LET p == Catalog[inst.id]
    IN  CASE p.kind = "glow" -> GlowColor(p, t, ColOf(e), RowOf(e), color)
          [] p.kind = "tint" -> TintColor(p, color)
          [] OTHER           -> color
InstColor(inst, t, e, color) ==
    LET p == Catalog[inst.id]
    IN  IF ~RegionContains(p.region, ColOf(e), RowOf(e))
        THEN color
        ELSE CASE p.kind = "glow" -> GlowColor(p, t, ColOf(e), RowOf(e), color)
               [] p.kind = "tint" -> TintColor(p, color)
               [] OTHER           -> color

\* The effect systems add_plugins registers, in the order of the tuple
\* (lib.rs:286-302), for the kinds of the catalog.
EffectSystems == <<"breathe", "collapse", "explode", "glow", "knock", "scatter", "slash", "tint">>

\* One effect system: the outer loop over the instances of its kind, in the
\* order the query yields them (spawn order).  A one-shot instance first runs
\* its prologue; the inner loop then runs unless the prologue said continue.
SystemStep(kind, effs, dt) ==
    [i \in 1 .. Len(effs) |->
        IF KindOf(effs[i]) = kind /\ kind \in OneShotKinds
        THEN StepOneShot(effs[i], dt)
        ELSE effs[i]]

RECURSIVE SystemPose(_, _, _, _, _, _, _, _)
SystemPose(kind, before, after, i, t, l, e, pose) ==
    IF i > Len(before)
    THEN pose
    ELSE SystemPose(kind, before, after, i + 1, t, l, e,
            IF KindOf(before[i]) = kind /\ Displaces(before[i], after[i])
            THEN InstPose(after[i], t, l, e, pose)
            ELSE pose)

RECURSIVE SystemColor(_, _, _, _, _, _, _)
SystemColor(kind, before, after, i, t, e, color) ==
    IF i > Len(before)
    THEN color
    ELSE SystemColor(kind, before, after, i + 1, t, e,
            IF KindOf(before[i]) = kind /\ Displaces(before[i], after[i])
            THEN InstColor(after[i], t, e, color)
            ELSE color)

\* --------------------------------------------------------------- schedule
\* A frame runs the First schedule (Time is updated there) and then the
\* Update schedule, whose sets are chained (lib.rs:240-249).
NextSetEffectsEarly(set) ==
    CASE set = "First"           -> "AppTick"
      [] set = "AppTick"         -> "Effects"
      [] set = "Effects"         -> "Sync"
      [] set = "Sync"            -> "ResetTransforms"
      [] set = "ResetTransforms" -> "First"
NextSet(set) ==
    CASE set = "First"           -> "AppTick"
      [] set = "AppTick"         -> "Sync"
      [] set = "Sync"            -> "ResetTransforms"
      [] set = "ResetTransforms" -> "Effects"
      [] set = "Effects"         -> "First"

Reverse(s) == [i \in 1 .. Len(s) |-> s[Len(s) + 1 - i]]

\* The orders in which the scheduler may run the systems of a set.  The three
\* systems of Sync are chained (lib.rs:266-275); the two of ResetTransforms
\* and the effect systems are not (lib.rs:276-305), so their order is the
\* scheduler's: the order of the tuple and its reverse stand for the orders it
\* can pick.
SystemOrdersNoResetColors(set) ==
    CASE set = "First"           -> {<<"time">>}
      [] set = "AppTick"         -> {<<"app_tick">>}
      [] set = "Sync"            -> {<<"expand_font_atlas", "rebuild_font_atlas",
                                       "sync_buffer_to_entities">>}
      [] set = "ResetTransforms" -> {<<"reset_transforms">>}
      [] set = "Effects"         -> {EffectSystems, Reverse(EffectSystems)}
SystemOrders(set) ==
    CASE set = "First"           -> {<<"time">>}
      [] set = "AppTick"         -> {<<"app_tick">>}
      [] set = "Sync"            -> {<<"expand_font_atlas", "rebuild_font_atlas",
                                       "sync_buffer_to_entities">>}
      [] set = "ResetTransforms" -> {<<"reset_transforms", "reset_colors">>,
                                      <<"reset_colors", "reset_transforms">>}
      [] set = "Effects"         -> {EffectSystems, Reverse(EffectSystems)}

SystemsOf(set) == UNION {{s[i] : i \in DOMAIN s} : s \in SystemOrders(set)}
UpdateSystems ==
    SystemsOf("AppTick") \cup SystemsOf("Sync") \cup SystemsOf("ResetTransforms")
        \cup SystemsOf("Effects")

\* The system the scheduler runs next.
Running(sys) == Len(pendingSys) > 0 /\ Head(pendingSys) = sys

\* The scheduler after a system returns: the next system of the set, or the
\* first of the next set.  Time's update opens the record of the frame.
Advance(sys) ==
    /\ IF Len(pendingSys) > 1
       THEN /\ pc' = pc
            /\ pendingSys' = Tail(pendingSys)
       ELSE /\ pc' = NextSet(pc)
            /\ pendingSys' \in SystemOrders(NextSet(pc))
    /\ ran' = IF sys = "time" THEN {} ELSE ran \cup {sys}

\* -------------------------------------------------------- reset systems
\* reset_transforms, effects/mod.rs:92-100, on one cell.
ResetPoseKeepsRotation(b, tf) == [tf EXCEPT !.x = b.x, !.y = b.y, !.scale = b.scale]
ResetPose(b, tf) == [tf EXCEPT !.x = b.x, !.y = b.y, !.rot = b.rot, !.scale = b.scale]

\* reset_colors (registered at lib.rs:280): the foreground sprite goes back
\* to the colour sync gave it, the CellStyle foreground, dimmed if dim.
BaseColor(style) == TargetFg(style.fg, style.dim)
ResetColor(style, color) == BaseColor(style)

\* ------------------------------------------------------------------- init
\* The lengths of a frame, in clock units.
DeltaTimes == {1, 2}

\* What an external controller has spawned: up to MaxEffects effect entities,
\* in spawn order.
RECURSIVE SeqsUpTo(_, _)
SeqsUpTo(S, n) ==
    IF n = 0
    THEN {<<>>}
    ELSE SeqsUpTo(S, n - 1)
         \cup {Append(s, x) : s \in {t \in SeqsUpTo(S, n - 1) : Len(t) = n - 1}, x \in S}
\* The frame-loop specification spawns from the first five catalog entries.
TickEffectIds == {id \in EffectIds : Catalog[id].kind \in {"breathe", "glow", "tint", "scatter", "knock"}}
Registrations ==
    {[i \in DOMAIN ids |-> SpawnInstance(ids[i])] : ids \in SeqsUpTo(TickEffectIds, MaxEffects)}

NoTrace == [recording |-> FALSE, run |-> <<>>, prev |-> <<>>]

\* After Plugin::build and the Startup schedule (generate_font_atlas, then
\* spawn_grid).
NoCall == [region |-> RegionAll, col |-> 0, row |-> 0, build |-> "release", result |-> "none"]
NoInput == [phase |-> "First", ran |-> {}, messages |-> <<>>, keys |-> {}, events |-> <<>>,
            produced |-> <<>>, consumed |-> <<>>]
NoBuild == [chars |-> <<>>, font_size |-> 0, shape |-> [min_x |-> 0, min_y |-> 0, w |-> 0, h |-> 0],
            out |-> <<>>]
NoExpansion ==
    [before |-> StartupGlyphMap, added |-> {}, requests |-> 0, served |-> 0,
     drained |-> {}, builds |-> 0]
\* Two plugin instances, one per marker type, each with its own grid of
\* cells at their spawn poses; no effect entity yet.
Markers == {"A", "B"}
OtherMarker(m) == IF m = "A" THEN "B" ELSE "A"
TwinBase(e) == SpawnPose(LayoutFromConfig(StartFontSize), e)
NoTwin ==
    [transform |-> [m \in Markers |-> [e \in CellIdx |-> TwinBase(e)]],
     effects |-> <<>>, pending |-> {}, by |-> "none"]
\* No Gravity entity yet; every cell's CellVelocity is zero (Default).
NoGravity ==
    [id |-> 0, active |-> FALSE,
     velocity |-> [e \in CellIdx |-> <<0, 0>>],
     travelled |-> [e \in CellIdx |-> <<0, 0>>],
     ticks |-> 0]
StartupState ==
    /\ buffer = BackendNewBuffer
    /\ dirty = BackendNewDirty
    /\ flush_generation = 0
    /\ sync_gen = 0
    /\ cell_style = [e \in CellIdx |-> DefaultCellStyle]
    /\ bg_color = [e \in CellIdx |-> Black]
    /\ fg_color = [e \in CellIdx |-> White]
    /\ fg_index = [e \in CellIdx |-> SpaceIndex(StartupGlyphMap)]
    /\ glyph_map = StartupGlyphMap
    /\ pending_glyphs = {}
    /\ config_font_size = StartFontSize
    /\ atlas_font_size = StartFontSize
    /\ layout = LayoutFromConfig(StartFontSize)
    /\ base = [e \in CellIdx |-> SpawnPose(LayoutFromConfig(StartFontSize), e)]
    /\ transform = [e \in CellIdx |-> SpawnPose(LayoutFromConfig(StartFontSize), e)]
    /\ time_elapsed = 0
    /\ time_delta = 0
    /\ pc = "First"
    /\ pendingSys = <<"time">>
    /\ ran = {}
    /\ lastOp = "init"
    /\ syncLog = [skipped |-> TRUE, processed |-> {}, writes |-> NoWrites]
    /\ resetLog = [pose |-> {}, color |-> {}]
    /\ holders = {}
    /\ step = "start"
    /\ lockLog = <<>>
    /\ atlasLog = NoExpansion
    /\ config_columns = Columns
    /\ atlasBuild = NoBuild
    /\ input = NoInput
    /\ rnd = <<>>
    /\ gravity = NoGravity
    /\ twin = NoTwin
    /\ fg_atlas = [e \in CellIdx |-> Cardinality(DOMAIN StartupGlyphMap)]
    /\ browser = [selected |-> 1, active |-> <<FALSE, FALSE>>, key |-> "none"]
    /\ cursor = [x |-> 0, y |-> 0, visible |-> FALSE]
    /\ flushes = 0

Init ==
    /\ StartupState
    /\ call = NoCall
    /\ effects \in Registrations
    /\ trace = NoTrace

\* ---------------------------------------------------------------- actions
\* The First schedule: Time advances by the length of the frame.
BeginFrame(dt) ==
    /\ pc = "First"
    /\ Running("time")
    /\ time_elapsed + dt <= MaxTime
    /\ time_delta' = dt
    /\ time_elapsed' = time_elapsed + dt
    /\ lastOp' = "time"
    /\ lockLog' = <<>>
    /\ Advance("time")
    /\ UNCHANGED <<holders, step, sideVars, syncVars, fontVars, poseVars, effects, obsVars>>

\* TerminalSet::AppTick, the application's system.  It draws nothing,
AppIdle ==
    /\ pc = "AppTick"
    /\ Running("app_tick")
    /\ step = "start"
    /\ lastOp' = "app_idle"
    /\ Advance("app_tick")
    /\ UNCHANGED <<lockVars, sideVars, syncVars, fontVars, poseVars, effects, timeVars, obsVars>>

\* The frames the application draws: a bold red A at (0, 0), a dim e-acute
\* on blue at (1, 1), a snowman (no outline in the font) at (0, 0), and a cell
\* past the right edge.
DrawCellAt(k) == CHOOSE cell \in DrawCells : cell.symbol = <<k>>
AppDrawItems == {<<0, 0, 65>>, <<1, 1, 233>>, <<0, 0, 9731>>, <<Columns, 0, 65>>}

\* or draws a frame in which one cell changed (Terminal::draw: Backend::draw
\* with the changed cells, then Backend::flush),
AppDraw(x, y, cell) ==
    /\ pc = "AppTick"
    /\ Running("app_tick")
    /\ flush_generation < MaxGeneration
    /\ buffer' = BackendDraw(buffer, x, y, cell)
    /\ dirty' = BackendDrawDirty(dirty, x, y)
    /\ flush_generation' = BackendFlush(flush_generation)
    /\ flushes' = flushes + 1
    /\ lastOp' = "app_draw"
    /\ Advance("app_tick")
    /\ UNCHANGED <<lockVars, extVars, atlasLog, call, cursor, sync_gen, gridVars, atlasVars, syncLog, fontVars, poseVars,
                   effects, timeVars, obsVars>>

\* or changes TerminalConfig.font_size (effects_browser.rs:254-262),
AppSetFontSize(font_size) ==
    /\ pc = "AppTick"
    /\ Running("app_tick")
    /\ font_size # config_font_size
    /\ config_font_size' = font_size
    /\ lastOp' = "app_font"
    /\ Advance("app_tick")
    /\ UNCHANGED <<lockVars, sideVars, syncVars, atlas_font_size, layout, poseVars, effects, timeVars,
                   obsVars>>

\* or re-triggers a one-shot effect that has finished
\* (effects_browser.rs:311-352).
RetriggerKeepsElapsed(inst) == [inst EXCEPT !.active = TRUE]
Retrigger(inst) == [inst EXCEPT !.elapsed = 0, !.active = TRUE]
AppRetrigger(i) ==
    /\ pc = "AppTick"
    /\ Running("app_tick")
    /\ i \in 1 .. Len(effects)
    /\ IsOneShot(effects[i])
    /\ ~effects[i].active
    /\ effects' = [effects EXCEPT ![i] = Retrigger(effects[i])]
    /\ trace' = IF trace.recording /\ i = 1
                THEN [trace EXCEPT !.prev = trace.run, !.run = <<>>]
                ELSE trace
    /\ lastOp' = "app_retrigger"
    /\ Advance("app_tick")
    /\ UNCHANGED <<lockVars, sideVars, syncVars, fontVars, poseVars, timeVars, resetLog>>

\* TerminalSet::Sync: expand_font_atlas, rebuild_font_atlas and
\* sync_buffer_to_entities, in this order.
ExpandSys ==
    /\ pc = "Sync"
    /\ Running("expand_font_atlas")
    /\ ExpandBody
    /\ atlasLog' = ExpandLog(atlasLog, glyph_map, pending_glyphs)
    /\ lastOp' = "expand"
    /\ Advance("expand_font_atlas")
    /\ UNCHANGED <<lockVars, call, cursorVars, extRest, sync_gen, syncLog, fontVars, poseVars, effects, timeVars, obsVars>>

RebuildSys ==
    /\ pc = "Sync"
    /\ Running("rebuild_font_atlas")
    /\ RebuildBody
    /\ lastOp' = "rebuild"
    /\ Advance("rebuild_font_atlas")
    /\ UNCHANGED <<lockVars, atlasLog, call, cursorVars, extRest, backendVars, sync_gen, gridVars, pending_glyphs, syncLog,
                   effects, timeVars, obsVars>>

SyncSys ==
    /\ pc = "Sync"
    /\ Running("sync_buffer_to_entities")
    /\ SyncBody
    /\ lastOp' = "sync"
    /\ Advance("sync_buffer_to_entities")
    /\ UNCHANGED <<lockVars, sideVars, fontVars, poseVars, effects, timeVars, obsVars>>

\* TerminalSet::ResetTransforms: reset_transforms and reset_colors.
ResetTransformsSys ==
    /\ pc = "ResetTransforms"
    /\ Running("reset_transforms")
    /\ transform' = [e \in CellIdx |-> ResetPose(base[e], transform[e])]
    /\ resetLog' = [resetLog EXCEPT !.pose = {e \in CellIdx : transform[e] # base[e]}]
    /\ lastOp' = "reset_transforms"
    /\ Advance("reset_transforms")
    /\ UNCHANGED <<lockVars, sideVars, syncVars, fontVars, base, effects, timeVars, trace>>

ResetColorsSys ==
    /\ pc = "ResetTransforms"
    /\ Running("reset_colors")
    /\ fg_color' = [e \in CellIdx |-> ResetColor(cell_style[e], fg_color[e])]
    /\ resetLog' = [resetLog EXCEPT
                       !.color = {e \in CellIdx : fg_color[e] # BaseColor(cell_style[e])}]
    /\ lastOp' = "reset_colors"
    /\ Advance("reset_colors")
    /\ UNCHANGED <<lockVars, sideVars, backendVars, sync_gen, cell_style, bg_color, fg_index, atlasVars,
                   syncLog, fontVars, poseVars, effects, timeVars, trace>>

\* TerminalSet::Effects: one effect system, over every instance of its kind
\* and every cell.
TraceStep(kind, before, after, tf) ==
    IF trace.recording /\ Len(before) > 0 /\ KindOf(before[1]) = kind /\ before[1].active
    THEN [trace EXCEPT !.run = Append(trace.run,
             [dt |-> time_delta, elapsed |-> after[1].elapsed,
              active |-> after[1].active, pose |-> tf])]
    ELSE trace

\* region.contains is the first thing the cell loop of every effect system
\* calls (e.g. scatter.rs:65-68, slash.rs:108-111); in a debug build the call
\* panics when a sum of GridRect::contains overflows, and the panic ends the
\* program in the middle of the tick.
EffectPanics(kind, before, after, build) ==
    /\ build = "debug"
    /\ \E i \in 1 .. Len(before) :
          /\ KindOf(before[i]) = kind
          /\ Displaces(before[i], after[i])
          /\ \E e \in CellIdx :
                RegionOutcome(Catalog[before[i].id].region, ColOf(e), RowOf(e), build) = "panic"

EffectSys(kind) ==
    /\ pc = "Effects"
    /\ Running(kind)
    /\ IF EffectPanics(kind, effects, SystemStep(kind, effects, time_delta), call.build)
       THEN /\ lastOp' = "panic"
            /\ pc' = "Crashed"
            /\ pendingSys' = <<>>
            /\ UNCHANGED <<ran, effects, transform, fg_color, trace>>
       ELSE /\ effects' = SystemStep(kind, effects, time_delta)
            /\ transform' = [e \in CellIdx |->
                  SystemPose(kind, effects, effects', 1, time_elapsed, layout, e, transform[e])]
            /\ fg_color' = [e \in CellIdx |->
                  SystemColor(kind, effects, effects', 1, time_elapsed, e, fg_color[e])]
            /\ trace' = TraceStep(kind, effects, effects', transform')
            /\ lastOp' = kind
            /\ Advance(kind)
    /\ UNCHANGED <<lockVars, sideVars, backendVars, sync_gen, cell_style, bg_color, fg_index, atlasVars,
                   syncLog, fontVars, base, timeVars, resetLog>>

\* ------------------------------------------------------------------ specs
\* The frame loop with an application that draws and changes the font size.
Next ==
    \/ \E dt \in DeltaTimes : BeginFrame(dt)
    \/ AppIdle
    \/ \E item \in AppDrawItems : AppDraw(item[1], item[2], DrawCellAt(item[3]))
    \/ \E font_size \in FontSizes : AppSetFontSize(font_size)
    \/ ExpandSys
    \/ RebuildSys
    \/ SyncSys
    \/ ResetTransformsSys
    \/ ResetColorsSys
    \/ \E kind \in SystemsOf("Effects") : EffectSys(kind)

Spec == Init /\ [][Next]_vars

\* The frame loop with one one-shot effect and a controller that re-triggers
\* it, the runs of the effect being recorded.
OneShotInit ==
    /\ StartupState
    /\ call = NoCall
    /\ \E id \in OneShotIds : effects = <<SpawnInstance(id)>>
    /\ trace = [recording |-> TRUE, run |-> <<>>, prev |-> <<>>]

OneShotNext ==
    \/ \E dt \in DeltaTimes : BeginFrame(dt)
    \/ AppIdle
    \/ \E i \in 1 .. MaxEffects : AppRetrigger(i)
    \/ ExpandSys
    \/ RebuildSys
    \/ SyncSys
    \/ ResetTransformsSys
    \/ ResetColorsSys
    \/ \E kind \in SystemsOf("Effects") : EffectSys(kind)

SpecOneShot == OneShotInit /\ [][OneShotNext]_vars

\* The backend and the sync systems alone, in any interleaving: draws and
\* flushes of the writer, sync passes and atlas expansions.
SyncInit ==
    /\ StartupState
    /\ call = NoCall
    /\ effects = <<>>
    /\ trace = NoTrace

Draw(x, y, cell) ==
    /\ buffer' = BackendDraw(buffer, x, y, cell)
    /\ dirty' = BackendDrawDirty(dirty, x, y)
    /\ lastOp' = "draw"
    /\ UNCHANGED <<lockVars, sideVars, flush_generation, sync_gen, gridVars, atlasVars, syncLog, fontVars,
                   poseVars, effects, timeVars, schedVars, obsVars>>

Flush ==
    /\ flush_generation < MaxGeneration
    /\ flush_generation' = BackendFlush(flush_generation)
    /\ flushes' = flushes + 1
    /\ lastOp' = "flush"
    /\ UNCHANGED <<lockVars, extVars, atlasLog, call, cursor, buffer, dirty, sync_gen, gridVars, atlasVars, syncLog, fontVars,
                   poseVars, effects, timeVars, schedVars, obsVars>>

SyncPass ==
    /\ SyncBody
    /\ lastOp' = "sync"
    /\ UNCHANGED <<lockVars, sideVars, fontVars, poseVars, effects, timeVars, schedVars, obsVars>>

ExpandPass ==
    /\ ExpandBody
    /\ lastOp' = "expand"
    /\ UNCHANGED <<lockVars, atlasLog, call, cursorVars, extRest, sync_gen, syncLog, fontVars, poseVars, effects, timeVars,
                   schedVars, obsVars>>

SyncNext ==
    \/ \E p \in DrawPositions, cell \in DrawCells : Draw(p[1], p[2], cell)
    \/ Flush
    \/ SyncPass
    \/ ExpandPass

SpecSync == SyncInit /\ [][SyncNext]_vars

\* The sync pass on malformed input.  TerminalConfig is a resource with public
\* fields (lib.rs:80-84) that any system may write, so the column count the
\* pass divides by (sync.rs:38) can differ from the one the grid was spawned
\* with; the dirty bitmap is handed over by the buffer, and a bitmap longer
\* than the buffer is the case sync.rs:55 guards against.
ConfigColumns == {1, Columns, Columns + 1}
ExtraMarkers == 1
MalformedCells == {c \in DrawCells : c.fg # "Reset"}

SetConfigColumns(c) ==
    /\ c # config_columns
    /\ config_columns' = c
    /\ lastOp' = "config"
    /\ UNCHANGED <<syncVars, fontVars, poseVars, effects, timeVars, schedVars,
                   obsVars, lockVars, atlasLog, call, cursorVars, atlasBuild, input, auxVars, fg_atlas>>

LongDirty ==
    /\ DOMAIN dirty = CellIdx
    /\ dirty' = [i \in 0 .. (NumCells - 1 + ExtraMarkers) |->
                    IF i \in CellIdx THEN dirty[i] ELSE TRUE]
    /\ lastOp' = "bitmap"
    /\ UNCHANGED <<buffer, flush_generation, sync_gen, gridVars, atlasVars, syncLog,
                   fontVars, poseVars, effects, timeVars, schedVars, obsVars,
                   lockVars, sideVars>>

MalformedNext ==
    \/ \E p \in DrawPositions, cell \in MalformedCells : Draw(p[1], p[2], cell)
    \/ Flush
    \/ SyncPass
    \/ \E c \in ConfigColumns : SetConfigColumns(c)
    \/ LongDirty

SpecMalformed == SyncInit /\ [][MalformedNext]_vars

\* The frame loop with the Mutex of TerminalResource (lib.rs:182-190) made
\* explicit: the application's draw system and sync_buffer_to_entities each
\* take the lock, work on the backend and drop the guard when they return.
\* Mutex::lock blocks while another guard is alive.
Acquire(h, sys) == h = {}
ReleaseKeepsGuard(h, sys) == h
Release(h, sys) == h \ {sys}
LockEvent(sys, event) == Append(lockLog, <<sys, event>>)

\* draw_ui (basic.rs:18-37): lock, Terminal::draw (Backend::draw, then
\* Backend::flush), and the guard dropped at the end of the function.
WriterLock ==
    /\ pc = "AppTick"
    /\ Running("app_tick")
    /\ step = "start"
    /\ flush_generation < MaxGeneration
    /\ Acquire(holders, "app_tick")
    /\ holders' = holders \cup {"app_tick"}
    /\ step' = "locked"
    /\ lockLog' = LockEvent("app_tick", "lock")
    /\ lastOp' = "writer_lock"
    /\ UNCHANGED <<syncVars, fontVars, poseVars, effects, timeVars, schedVars, obsVars, sideVars>>

WriterDraw(x, y, cell) ==
    /\ Running("app_tick")
    /\ step = "locked"
    /\ buffer' = BackendDraw(buffer, x, y, cell)
    /\ dirty' = BackendDrawDirty(dirty, x, y)
    /\ step' = "drawn"
    /\ lockLog' = LockEvent("app_tick", "draw")
    /\ lastOp' = "writer_draw"
    /\ UNCHANGED <<flush_generation, sync_gen, gridVars, atlasVars, syncLog, fontVars,
                   poseVars, effects, timeVars, schedVars, obsVars, holders, sideVars>>

WriterFlush ==
    /\ Running("app_tick")
    /\ step = "drawn"
    /\ flush_generation' = BackendFlush(flush_generation)
    /\ flushes' = flushes + 1
    /\ step' = "flushed"
    /\ lockLog' = LockEvent("app_tick", "flush")
    /\ lastOp' = "writer_flush"
    /\ UNCHANGED <<buffer, dirty, sync_gen, gridVars, atlasVars, syncLog, fontVars,
                   poseVars, effects, timeVars, schedVars, obsVars, holders, extVars, atlasLog, call, cursor>>

WriterUnlock ==
    /\ Running("app_tick")
    /\ step = "flushed"
    /\ holders' = Release(holders, "app_tick")
    /\ step' = "start"
    /\ lockLog' = LockEvent("app_tick", "unlock")
    /\ lastOp' = "writer_unlock"
    /\ Advance("app_tick")
    /\ UNCHANGED <<syncVars, fontVars, poseVars, effects, timeVars, obsVars, sideVars>>

\* sync_buffer_to_entities: the lock (sync.rs:28), the pass under the lock
\* (sync.rs:29-140), and the guard dropped on either return.
SyncLock ==
    /\ pc = "Sync"
    /\ Running("sync_buffer_to_entities")
    /\ step = "start"
    /\ Acquire(holders, "sync_buffer_to_entities")
    /\ holders' = holders \cup {"sync_buffer_to_entities"}
    /\ step' = "locked"
    /\ lockLog' = LockEvent("sync_buffer_to_entities", "lock")
    /\ lastOp' = "sync_lock"
    /\ UNCHANGED <<syncVars, fontVars, poseVars, effects, timeVars, schedVars, obsVars, sideVars>>

SyncRead ==
    /\ Running("sync_buffer_to_entities")
    /\ step = "locked"
    /\ SyncBody
    /\ step' = "read"
    /\ lockLog' = LockEvent("sync_buffer_to_entities", "read")
    /\ lastOp' = "sync_read"
    /\ UNCHANGED <<fontVars, poseVars, effects, timeVars, schedVars, obsVars, holders, sideVars>>

SyncUnlock ==
    /\ Running("sync_buffer_to_entities")
    /\ step = "read"
    /\ holders' = Release(holders, "sync_buffer_to_entities")
    /\ step' = "start"
    /\ lockLog' = LockEvent("sync_buffer_to_entities", "unlock")
    /\ lastOp' = "sync_unlock"
    /\ Advance("sync_buffer_to_entities")
    /\ UNCHANGED <<syncVars, fontVars, poseVars, effects, timeVars, obsVars, sideVars>>

LockNext ==
    \/ \E dt \in DeltaTimes : BeginFrame(dt)
    \/ AppIdle
    \/ WriterLock
    \/ \E item \in AppDrawItems : WriterDraw(item[1], item[2], DrawCellAt(item[3]))
    \/ WriterFlush
    \/ WriterUnlock
    \/ ExpandSys
    \/ RebuildSys
    \/ SyncLock
    \/ SyncRead
    \/ SyncUnlock
    \/ ResetTransformsSys
    \/ ResetColorsSys
    \/ \E kind \in SystemsOf("Effects") : EffectSys(kind)

SpecLock == SyncInit /\ [][LockNext]_vars

\* The atlas alone: characters met by sync in any order, maintenance passes
\* and changes of the font size.
MaxRequests == 3
AtlasDiscover(ch) ==
    /\ NewGlyphs(glyph_map, ch) # {}
    /\ atlasLog.requests < MaxRequests
    /\ pending_glyphs' = pending_glyphs \cup NewGlyphs(glyph_map, ch)
    /\ atlasLog' = [atlasLog EXCEPT !.requests = atlasLog.requests + 1]
    /\ lastOp' = "discover"
    /\ UNCHANGED <<backendVars, sync_gen, gridVars, glyph_map, syncLog, fontVars,
                   poseVars, effects, timeVars, schedVars, obsVars, lockVars,
                   call, cursorVars, extVars>>

AtlasExpand ==
    /\ ExpandBody
    /\ atlasLog' = ExpandLog(atlasLog, glyph_map, pending_glyphs)
    /\ lastOp' = "expand"
    /\ UNCHANGED <<sync_gen, syncLog, fontVars, poseVars, effects, timeVars,
                   schedVars, obsVars, lockVars, call, cursorVars, extRest>>

AtlasSetFontSize(font_size) ==
    /\ font_size # config_font_size
    /\ config_font_size' = font_size
    /\ lastOp' = "font"
    /\ UNCHANGED <<syncVars, atlas_font_size, layout, poseVars, effects, timeVars,
                   schedVars, obsVars, lockVars, sideVars>>

AtlasRebuild ==
    /\ RebuildBody
    /\ lastOp' = "rebuild"
    /\ UNCHANGED <<backendVars, sync_gen, gridVars, pending_glyphs, syncLog,
                   effects, timeVars, schedVars, obsVars, lockVars, atlasLog, call, cursorVars, extRest>>

AtlasNext ==
    \/ \E ch \in Chars : AtlasDiscover(ch)
    \/ AtlasExpand
    \/ \E font_size \in FontSizes : AtlasSetFontSize(font_size)
    \/ AtlasRebuild

SpecAtlas == SyncInit /\ [][AtlasNext]_vars

\* build_atlas_data_for_chars alone (atlas.rs:63-156): a caller hands it a
\* list of distinct characters and a raster size, and the font gives every
\* outlined glyph its pixel bounds relative to the pen position.
ATLAS_COLS == 16

\* atlas.rs:69-83: tile size, padding, stride and the size of the texture.
AtlasRows(n) == (n + ATLAS_COLS - 1) \div ATLAS_COLS
AtlasPad(cell_w) == Max(cell_w \div 2, 4)
AtlasGeometry(n, font_size) ==
    LET cell_w == CellWidthOf(font_size)
        cell_h == CellHeightOf(font_size)
        pad == AtlasPad(cell_w)
    IN  [cell_w |-> cell_w, cell_h |-> cell_h, pad |-> pad,
         stride_w |-> cell_w + pad, stride_h |-> cell_h + pad,
         rows |-> AtlasRows(n),
         atlas_width |-> (cell_w + pad) * ATLAS_COLS,
         atlas_height |-> (cell_h + pad) * AtlasRows(n)]

\* atlas.rs:98-101: the origin of tile i.
TileOrigin(i, g) ==
    [x |-> (i % ATLAS_COLS) * g.stride_w, y |-> (i \div ATLAS_COLS) * g.stride_h]

\* atlas.rs:103-124: the pixels outlined.draw reaches for glyph i, and those
\* of them the closure writes.
GlyphPixels(i, g, shape) ==
    {<<TileOrigin(i, g).x + shape.min_x + px, TileOrigin(i, g).y + shape.min_y + py>> :
        px \in 0 .. (shape.w - 1), py \in 0 .. (shape.h - 1)}
TilePixelsUnclipped(i, g, shape) == GlyphPixels(i, g, shape)
TilePixels(i, g, shape) ==
    {p \in GlyphPixels(i, g, shape) :
        /\ p[1] >= TileOrigin(i, g).x
        /\ p[2] >= TileOrigin(i, g).y
        /\ p[1] < TileOrigin(i, g).x + g.stride_w
        /\ p[2] < TileOrigin(i, g).y + g.stride_h}

\* atlas.rs:90-91: every character of the list is inserted with its position.
ListMapOutlinedOnly(chars) ==
    [c \in {chars[i] : i \in {j \in DOMAIN chars : HasOutline(chars[j])}} |->
        (CHOOSE i \in DOMAIN chars : chars[i] = c) - 1]
ListMap(chars) ==
    [c \in {chars[i] : i \in DOMAIN chars} |->
        (CHOOSE i \in DOMAIN chars : chars[i] = c) - 1]

\* The AtlasData returned; tiles are named by glyph index.
BuildAtlasData(chars, font_size, shape) ==
    LET g == AtlasGeometry(Len(chars), font_size)
    IN  <<[glyph_map |-> ListMap(chars),
           glyph_count |-> Len(chars),
           geometry |-> g,
           pixels |-> [i \in 0 .. (Len(chars) - 1) |->
                          IF HasOutline(chars[i + 1]) THEN TilePixels(i, g, shape) ELSE {}]]>>

\* The lists callers build: the first characters of printable ASCII, in
\* order, followed by characters outside ASCII.
AsciiPrefix(k) == [i \in 1 .. k |-> 31 + i]
PrefixLengths == {0, 1, 2, 16, 17}
ListTails == {<<>>, <<9731>>, <<161, 9731>>}
RasterSizes == {5, 20}
\* Pixel bounds: inside the tile, sticking out to the left and above, and
\* reaching past the padding to the right and below.
GlyphShapes(font_size) ==
    LET g == AtlasGeometry(1, font_size)
    IN  { [min_x |-> 0, min_y |-> 0, w |-> g.cell_w, h |-> g.cell_h],
          [min_x |-> 1, min_y |-> 2, w |-> 1, h |-> 1],
          [min_x |-> 0 - 1, min_y |-> 0 - 2, w |-> g.cell_w + 1, h |-> g.cell_h + 2],
          [min_x |-> 0, min_y |-> 0, w |-> g.stride_w + 2, h |-> g.stride_h + 1] }

BuildRequest(chars, font_size, shape) ==
    /\ atlasBuild.out # <<>> \/ atlasBuild = NoBuild
    /\ atlasBuild' = [chars |-> chars, font_size |-> font_size, shape |-> shape, out |-> <<>>]
    /\ lastOp' = "request"
    /\ UNCHANGED <<syncVars, fontVars, poseVars, effects, timeVars, schedVars,
                   obsVars, lockVars, atlasLog, call, cursorVars, config_columns, input, auxVars, fg_atlas>>

Build ==
    /\ atlasBuild # NoBuild
    /\ atlasBuild.out = <<>>
    /\ atlasBuild' = [atlasBuild EXCEPT !.out =
                         BuildAtlasData(atlasBuild.chars, atlasBuild.font_size, atlasBuild.shape)]
    /\ lastOp' = "build"
    /\ UNCHANGED <<syncVars, fontVars, poseVars, effects, timeVars, schedVars,
                   obsVars, lockVars, atlasLog, call, cursorVars, config_columns, input, auxVars, fg_atlas>>

BuildNext ==
    \/ \E k \in PrefixLengths, tail \in ListTails, font_size \in RasterSizes :
          \E shape \in GlyphShapes(font_size) :
             BuildRequest(AsciiPrefix(k) \o tail, font_size, shape)
    \/ Build

SpecBuild == SyncInit /\ [][BuildNext]_vars

\* Keyboard input alone (input.rs, examples/counter.rs): the window delivers
\* KeyboardInput messages before Update, forward_input and the application's
\* handle_input both run in TerminalSet::AppTick, in either order, once a
\* frame.
MaxKeys == 3

\* The KeyboardInput messages the window sends: state, key_code, text (empty
\* for None, CR for a control character) and repeat.
Key(state, key_code, text, repeat) ==
    [state |-> state, key_code |-> key_code, text |-> text, repeat |-> repeat]
KeyInputs ==
    { Key("Pressed", "KeyA", "a", FALSE),
      Key("Pressed", "KeyA", "a", TRUE),
      Key("Released", "KeyA", "", FALSE),
      Key("Pressed", "ArrowUp", "", FALSE),
      Key("Pressed", "ShiftLeft", "", FALSE),
      Key("Released", "ShiftLeft", "", FALSE),
      Key("Pressed", "Enter", "CR", FALSE),
      Key("Pressed", "ContextMenu", "", FALSE) }

\* bevy_keycode_to_terminput, input.rs:66-121: the text's first character if
\* it is not a control character, else the table of key codes.
IsControl(text) == text = "CR"
bevy_keycode_to_terminput(event) ==
    IF event.text # "" /\ ~IsControl(event.text)
    THEN "Char(" \o event.text \o ")"
    ELSE CASE event.key_code = "Space"   -> "Char( )"
           [] event.key_code = "Enter"   -> "Enter"
           [] event.key_code = "ArrowUp" -> "Up"
           [] OTHER                      -> "None"

\* bevy_key_to_terminal_event, input.rs:32-63; keys is ButtonInput<KeyCode>.
KeyModifiers(keys) == IF "ShiftLeft" \in keys THEN {"SHIFT"} ELSE {}
bevy_key_to_terminal_event(event, keys) ==
    [code |-> bevy_keycode_to_terminput(event),
     modifiers |-> KeyModifiers(keys),
     kind |-> IF event.repeat THEN "Repeat" ELSE "Press",
     of |-> event.id]

\* forward_input, input.rs:14-29: the events pushed for a run of messages.
RECURSIVE Forwarded(_, _)
Forwarded(msgs, keys) ==
    IF msgs = <<>>
    THEN <<>>
    ELSE IF Head(msgs).state # "Pressed"
            \/ bevy_keycode_to_terminput(Head(msgs)) = "None"
         THEN Forwarded(Tail(msgs), keys)
         ELSE <<bevy_key_to_terminal_event(Head(msgs), keys)>>
                 \o Forwarded(Tail(msgs), keys)

\* VecDeque::push_back for each event in turn.
PushFront(events, new) == new \o events
PushBack(events, new) == events \o new

\* Messages::update in First: a message lives for the frame it was sent in
\* and the next one.
InputFrameStart ==
    /\ input.phase = "First"
    /\ input' = [input EXCEPT
          !.phase = "PreUpdate",
          !.ran = {},
          !.messages = [i \in 1 .. Len(SelectSeq(input.messages, LAMBDA m : m.age = 0)) |->
                           [SelectSeq(input.messages, LAMBDA m : m.age = 0)[i]
                               EXCEPT !.age = 1]]]
    /\ lastOp' = "messages"
    /\ UNCHANGED <<syncVars, fontVars, poseVars, effects, timeVars, schedVars,
                   obsVars, lockVars, atlasLog, call, cursorVars, config_columns, atlasBuild, auxVars, fg_atlas>>

\* The window sends a message; keyboard_input_system updates ButtonInput.
KeyProduce(key) ==
    /\ input.phase = "PreUpdate"
    /\ Len(input.produced) < MaxKeys
    /\ LET event == [state |-> key.state, key_code |-> key.key_code, text |-> key.text,
                     repeat |-> key.repeat, id |-> Len(input.produced) + 1]
       IN  input' = [input EXCEPT
              !.messages = Append(input.messages,
                                  [event |-> event, age |-> 0, read |-> FALSE]),
              !.produced = Append(input.produced, event),
              !.keys = IF key.state = "Pressed"
                       THEN input.keys \cup {key.key_code}
                       ELSE input.keys \ {key.key_code}]
    /\ lastOp' = "key"
    /\ UNCHANGED <<syncVars, fontVars, poseVars, effects, timeVars, schedVars,
                   obsVars, lockVars, atlasLog, call, cursorVars, config_columns, atlasBuild, auxVars, fg_atlas>>

InputEnterUpdate ==
    /\ input.phase = "PreUpdate"
    /\ input' = [input EXCEPT !.phase = "AppTick"]
    /\ lastOp' = "update"
    /\ UNCHANGED <<syncVars, fontVars, poseVars, effects, timeVars, schedVars,
                   obsVars, lockVars, atlasLog, call, cursorVars, config_columns, atlasBuild, auxVars, fg_atlas>>

\* forward_input: the reader yields the messages it has not read, in order.
Unread(messages) ==
    LET unread == SelectSeq(messages, LAMBDA m : ~m.read)
    IN  [i \in 1 .. Len(unread) |-> unread[i].event]
ForwardInput ==
    /\ input.phase = "AppTick"
    /\ "forward_input" \notin input.ran
    /\ input' = [input EXCEPT
          !.ran = input.ran \cup {"forward_input"},
          !.events = PushBack(input.events, Forwarded(Unread(input.messages), input.keys)),
          !.messages = [i \in 1 .. Len(input.messages) |->
                           [input.messages[i] EXCEPT !.read = TRUE]]]
    /\ lastOp' = "forward_input"
    /\ UNCHANGED <<syncVars, fontVars, poseVars, effects, timeVars, schedVars,
                   obsVars, lockVars, atlasLog, call, cursorVars, config_columns, atlasBuild, auxVars, fg_atlas>>

\* examples/counter.rs:27-38, handle_input: pop_front until the queue is empty.
HandleInput ==
    /\ input.phase = "AppTick"
    /\ "handle_input" \notin input.ran
    /\ input' = [input EXCEPT
          !.ran = input.ran \cup {"handle_input"},
          !.consumed = input.consumed \o input.events,
          !.events = <<>>]
    /\ lastOp' = "handle_input"
    /\ UNCHANGED <<syncVars, fontVars, poseVars, effects, timeVars, schedVars,
                   obsVars, lockVars, atlasLog, call, cursorVars, config_columns, atlasBuild, auxVars, fg_atlas>>

InputEndFrame ==
    /\ input.phase = "AppTick"
    /\ input.ran = {"forward_input", "handle_input"}
    /\ input' = [input EXCEPT !.phase = "First"]
    /\ lastOp' = "frame"
    /\ UNCHANGED <<syncVars, fontVars, poseVars, effects, timeVars, schedVars,
                   obsVars, lockVars, atlasLog, call, cursorVars, config_columns, atlasBuild, auxVars, fg_atlas>>

InputNext ==
    \/ InputFrameStart
    \/ \E key \in KeyInputs : KeyProduce(key)
    \/ InputEnterUpdate
    \/ ForwardInput
    \/ HandleInput
    \/ InputEndFrame

SpecInput == SyncInit /\ [][InputNext]_vars

\* EffectRegion::contains alone: a region and a cell, from the regions and
\* cells of the tests (effects/mod.rs:118-148) and a rectangle that reaches
\* to the last column, in a debug or a release build.
MaxRects == 2
RectSamples == {Rect(0, 0, 10, 10), Rect(3, 3, 2, 2), Rect(1, 0, 65535, 1)}
CellSamples == {<<0, 0>>, <<1, 0>>, <<3, 3>>, <<4, 4>>, <<5, 5>>, <<9, 9>>, <<10, 10>>}
RegionCalls ==
    {[region |-> [include |-> inc, exclude |-> exc], col |-> c[1], row |-> c[2],
      build |-> b, result |-> "none"] :
        inc \in SeqsUpTo(RectSamples, MaxRects), exc \in SeqsUpTo(RectSamples, MaxRects),
        c \in CellSamples, b \in {"debug", "release"}}

RegionInit ==
    /\ StartupState
    /\ effects = <<>>
    /\ trace = NoTrace
    /\ call \in RegionCalls

ContainsCall ==
    /\ call.result = "none"
    /\ call' = [call EXCEPT !.result = RegionOutcome(call.region, call.col, call.row, call.build)]
    /\ lastOp' = "contains"
    /\ UNCHANGED <<syncVars, fontVars, poseVars, effects, timeVars, schedVars, obsVars,
                   lockVars, extVars, atlasLog, cursorVars>>

SpecRegion == RegionInit /\ [][ContainsCall]_vars

\* The frame loop with effects that cover part of the grid: up to two
\* instances, spawned from the catalog entries with a partial region.
GateInit ==
    /\ StartupState
    /\ call = NoCall
    /\ effects \in {[i \in DOMAIN ids |-> SpawnInstance(ids[i])] :
                       ids \in SeqsUpTo(GateIds, 2)}
    /\ trace = NoTrace

SpecGate == GateInit /\ [][OneShotNext]_vars

\* The frame loop with effects that are malformed: up to two instances, of
\* which at least one has a region of zero area or an origin outside the
\* grid, in a debug or a release build.
DegenerateIds ==
    (Len(BrowserCatalog \o RegionCatalog) + 1) .. Len(BrowserCatalog \o RegionCatalog \o DegenerateCatalog)
CompanionIds == {3, 4}
Builds == {"debug", "release"}
DegenerateInit ==
    /\ StartupState
    /\ \E b \in Builds : call = [NoCall EXCEPT !.build = b]
    /\ effects \in {[i \in DOMAIN ids |-> SpawnInstance(ids[i])] :
                       ids \in {s \in SeqsUpTo(DegenerateIds \cup CompanionIds, 2) :
                                   \E i \in DOMAIN s : s[i] \in DegenerateIds}}
    /\ trace = NoTrace

SpecDegenerate == DegenerateInit /\ [][OneShotNext]_vars

\* The frame loop of Spec with a scatter over the whole grid, alone or after
\* a breathe: the effects that move, turn and scale every cell.
PoseInit ==
    /\ StartupState
    /\ call = NoCall
    /\ effects \in {<<SpawnInstance(4)>>, <<SpawnInstance(1), SpawnInstance(4)>>}
    /\ trace = NoTrace

SpecPose == PoseInit /\ [][Next]_vars

\* The backend alone, under any sequence of the operations of the Backend
\* trait: draw, flush, clear, clear_region, the cursor operations and the
\* size queries.
CursorPositions == {<<0, 0>>, <<1, 0>>, <<1, 1>>, <<Columns + 1, 0>>, <<0, Rows + 1>>}

Clear ==
    /\ buffer' = BackendClear(buffer)
    /\ dirty' = MarkAllDirty(dirty)
    /\ lastOp' = "clear"
    /\ UNCHANGED <<flush_generation, sync_gen, gridVars, atlasVars, syncLog, fontVars,
                   poseVars, effects, timeVars, schedVars, obsVars, lockVars, sideVars>>

ClearRegion(clear_type) ==
    /\ IF ClearRegionPanics(cursor, clear_type)
       THEN /\ lastOp' = "panic"
            /\ UNCHANGED <<buffer, dirty>>
       ELSE /\ buffer' = [i \in CellIdx |->
                            IF i \in ClearRegionRange(cursor, clear_type)
                            THEN DefaultCell ELSE buffer[i]]
            /\ dirty' = [i \in CellIdx |->
                            dirty[i] \/ i \in ClearRegionRange(cursor, clear_type)]
            /\ lastOp' = "clear_region"
    /\ UNCHANGED <<flush_generation, sync_gen, gridVars, atlasVars, syncLog, fontVars,
                   poseVars, effects, timeVars, schedVars, obsVars, lockVars, sideVars>>

SetCursorPosition(x, y) ==
    /\ cursor' = [cursor EXCEPT !.x = x, !.y = y]
    /\ lastOp' = "set_cursor_position"
    /\ UNCHANGED <<syncVars, fontVars, poseVars, effects, timeVars, schedVars, obsVars,
                   lockVars, extVars, atlasLog, call, flushes>>

\* show_cursor and hide_cursor
SetCursorVisible(visible) ==
    /\ cursor' = [cursor EXCEPT !.visible = visible]
    /\ lastOp' = "cursor_visible"
    /\ UNCHANGED <<syncVars, fontVars, poseVars, effects, timeVars, schedVars, obsVars,
                   lockVars, extVars, atlasLog, call, flushes>>

\* get_cursor_position, size and window_size
Query(op) ==
    /\ lastOp' = op
    /\ UNCHANGED <<syncVars, fontVars, poseVars, effects, timeVars, schedVars, obsVars,
                   lockVars, sideVars>>

BackendNext ==
    \/ \E p \in DrawPositions, cell \in DrawCells : Draw(p[1], p[2], cell)
    \/ Flush
    \/ Clear
    \/ \E clear_type \in {"All", "AfterCursor", "BeforeCursor", "CurrentLine",
                           "UntilNewLine"} : ClearRegion(clear_type)
    \/ \E p \in CursorPositions : SetCursorPosition(p[1], p[2])
    \/ \E visible \in BOOLEAN : SetCursorVisible(visible)
    \/ \E op \in {"get_cursor_position", "size", "window_size"} : Query(op)

SpecBackend == SyncInit /\ [][BackendNext]_vars

\* ------------------------------------------------- hash-driven effects
\* (h % 2000) as f32 / 1000.0 - 1.0, in thousandths (jitter.rs:51-52,
\* glitch.rs:58-59).
HashUnitSeeded(a, b) == Mod32(simple_hash(WrappingAdd(a, U32(Len(rnd))), b), 2000) - 1000
HashUnit(a, b) == Mod32(simple_hash(a, b), 2000) - 1000

\* jitter.rs:41-65.  speed is in pattern changes per clock unit, amplitude in
\* pixels, max_rotation in milliradians.
JitterApply(p, t, col, row, pose) ==
    LET time_slot == U32(t * p.speed)
        cell_id == U32(row * 1000 + col)
        dx == HashUnit(cell_id, time_slot)
        dy == HashUnit(cell_id, WrappingAdd(time_slot, U32(3571)))
        r  == HashUnit(cell_id, WrappingAdd(time_slot, U32(6947)))
    IN  [x     |-> pose.x + MulDiv(dx, p.amplitude, 1000),
         y     |-> pose.y + MulDiv(dy, p.amplitude, 1000),
         rot   |-> IF p.rotate THEN MulDiv(r, p.max_rotation, 1000) ELSE pose.rot,
         scale |-> pose.scale]

\* glitch.rs:41-62.  intensity is in thousandths of the rows, frequency in
\* pattern changes per clock unit.
GlitchApply(p, t, row, pose) ==
    LET time_slot == U32(t * p.frequency)
        row_frac == Mod32(simple_hash(U32(row), time_slot), 1000)
        offset_frac == HashUnit(U32(row), WrappingAdd(time_slot, U32(7919)))
    IN  IF p.active /\ row_frac < p.intensity
        THEN [pose EXCEPT !.x = pose.x + MulDiv(offset_frac, p.max_offset, 1000)]
        ELSE pose

\* bubbly.rs:39-60.  density is in thousandths of the cells, max_scale in
\* percent, speed in quarter turns per clock unit; the phase of a cell is
\* rounded down to a quarter turn.
BubblyApply(p, t, col, row, pose) ==
    LET h == simple_hash(U32(col), U32(row))
        phase == (4 * Mod32(h, 10000)) \div 10000
        wave == Sin4(p.speed * t + phase)
        scale == 100 + MulDiv(p.max_scale - 100, (wave + 100) \div 2, 100)
    IN  IF Mod32(h, 1000) >= p.density
        THEN pose
        ELSE [pose EXCEPT !.scale = MulDiv(pose.scale, scale, 100)]

\* Instances of the five effects that draw on simple_hash.
HashedCatalog ==
    << [kind |-> "jitter", region |-> RegionAll,
        amplitude |-> 30, speed |-> 1, rotate |-> TRUE, max_rotation |-> 50],
       [kind |-> "jitter", region |-> RegionNotOrigin,
        amplitude |-> 50, speed |-> 2, rotate |-> FALSE, max_rotation |-> 50],
       [kind |-> "glitch", region |-> RegionAll,
        max_offset |-> 30, intensity |-> 700, frequency |-> 1, active |-> TRUE],
       [kind |-> "bubbly", region |-> RegionAll,
        speed |-> 1, density |-> 600, max_scale |-> 140],
       [kind |-> "explode", region |-> RegionAll,
        origin_col |-> 0, origin_row |-> 0, force |-> 10, chaos |-> 50, duration |-> 3],
       [kind |-> "knock", region |-> RegionAll,
        angle |-> 0, amplitude |-> 2, deviation |-> 500, rotation |-> 100, duration |-> 3] >>

\* The cell loop of one of these instances on one cell: a continuous effect
\* reads Time::elapsed_secs, a one-shot its own elapsed time, here the time
\* since it was spawned at clock 0 (explode.rs:59-63, knock.rs:50-59).
HashedPose(p, t, l, col, row, pose) ==
    IF ~RegionContains(p.region, col, row)
    THEN pose
    ELSE CASE p.kind = "jitter"  -> JitterApply(p, t, col, row, pose)
           [] p.kind = "glitch"  -> GlitchApply(p, t, row, pose)
           [] p.kind = "bubbly"  -> BubblyApply(p, t, col, row, pose)
           [] p.kind = "explode" ->
                IF t > p.duration THEN pose ELSE ExplodeApply(p, t, l, col, row, pose)
           [] p.kind = "knock"   ->
                IF t > p.duration THEN pose ELSE KnockApply(p, t, l, col, row, pose)

PoseDelta(b, tf) ==
    [x |-> tf.x - b.x, y |-> tf.y - b.y, rot |-> tf.rot - b.rot, scale |-> tf.scale - b.scale]

\* One frame at clock t in which the instance id is the only effect: the
\* reset systems put every cell at its base pose, then the effect's system
\* runs.  The run is recorded with the delta it gave every cell.
MaxRuns == 3
HashedClocks == 1 .. 2
HashedFrame(id, t) ==
    /\ Len(rnd) < MaxRuns
    /\ time_delta' = 1
    /\ time_elapsed' = t
    /\ transform' = [e \in CellIdx |->
          HashedPose(HashedCatalog[id], t, layout, ColOf(e), RowOf(e),
                     ResetPose(base[e], transform[e]))]
    /\ rnd' = Append(rnd, [id |-> id, clock |-> t,
                           delta |-> [e \in CellIdx |-> PoseDelta(base[e], transform'[e])]])
    /\ lastOp' = "hashed"
    /\ UNCHANGED <<syncVars, fontVars, base, effects, schedVars, obsVars, lockVars,
                   atlasLog, call, cursorVars, config_columns, atlasBuild, input, browser, gravity, twin, fg_atlas>>

HashedNext == \E id \in DOMAIN HashedCatalog, t \in HashedClocks : HashedFrame(id, t)

SpecHashed == SyncInit /\ [][HashedNext]_vars

\* ------------------------------------------------------- effects browser
\* Two entries of the browser's list, both one-shot effects: Collapse
\* (idx 2) and Explode (idx 9) (effects_browser.rs:286-302), as instances of
\* the catalog.
BrowserEntries == <<6, 7>>
EntryOf(id) == CHOOSE idx \in DOMAIN BrowserEntries : BrowserEntries[idx] = id
BrowserKeys == {"none", "up", "down", "toggle", "reset"}

\* handle_input on one key event: Up, Down, Enter or Space, 'r'
\* (effects_browser.rs:215-234).
HandleKey(st, key) ==
    CASE key = "up"     -> [st EXCEPT !.selected = IF st.selected > 1 THEN st.selected - 1 ELSE st.selected]
      [] key = "down"   -> [st EXCEPT !.selected = IF st.selected + 1 <= Len(BrowserEntries)
                                                   THEN st.selected + 1 ELSE st.selected]
      [] key = "toggle" -> [st EXCEPT !.active[st.selected] = ~st.active[st.selected]]
      [] key = "reset"  -> [st EXCEPT !.active = [idx \in DOMAIN BrowserEntries |-> FALSE]]
      [] OTHER          -> st

\* sync_effects (effects_browser.rs:279-366): an entry that is on and has no
\* entity gets one; an entry that is on and has one gets it put back to
\* elapsed 0 and Active when it has finished; an entry that is off loses its
\* entity.  The commands are applied before the next set runs.
IsSpawned(effs, idx) == \E i \in DOMAIN effs : effs[i].id = BrowserEntries[idx]
SyncKept(st, effs) ==
    LET on == SelectSeq(effs, LAMBDA inst : st.active[EntryOf(inst.id)])
    IN  [i \in DOMAIN on |-> IF on[i].active THEN on[i] ELSE Retrigger(on[i])]
RECURSIVE SyncSpawned(_, _, _)
SyncSpawned(st, effs, idx) ==
    IF idx > Len(BrowserEntries)
    THEN <<>>
    ELSE (IF st.active[idx] /\ ~IsSpawned(effs, idx)
          THEN <<SpawnInstance(BrowserEntries[idx])>>
          ELSE <<>>) \o SyncSpawned(st, effs, idx + 1)
SyncEffects(st, effs) == SyncKept(st, effs) \o SyncSpawned(st, effs, 1)

\* TerminalSet::AppTick of the browser: handle_input, then sync_effects
\* (effects_browser.rs:24-29), with at most one key event in the queue.
BrowserTick(key) ==
    /\ pc = "AppTick"
    /\ Running("app_tick")
    /\ browser' = [HandleKey(browser, key) EXCEPT !.key = key]
    /\ effects' = SyncEffects(HandleKey(browser, key), effects)
    /\ lastOp' = "browser"
    /\ Advance("app_tick")
    /\ UNCHANGED <<lockVars, atlasLog, call, cursorVars, config_columns, atlasBuild, input, rnd,
                   gravity, twin, fg_atlas, syncVars, fontVars, poseVars, timeVars, obsVars>>

BrowserNext ==
    \/ \E dt \in DeltaTimes : BeginFrame(dt)
    \/ \E key \in BrowserKeys : BrowserTick(key)
    \/ ExpandSys
    \/ RebuildSys
    \/ SyncSys
    \/ ResetTransformsSys
    \/ ResetColorsSys
    \/ \E kind \in SystemsOf("Effects") : EffectSys(kind)

SpecBrowser == SyncInit /\ [][BrowserNext]_vars

\* ------------------------------------------------- one-shots, every frame
\* Two one-shot instances and an application that may re-trigger one that
\* has finished.  Frames go on for ever: the clock, which no one-shot system
\* reads, stays at MaxTime once it has got there.
LongId == Len(Catalog)
LivePairs == {<<6, 7>>, <<4, 5>>, <<LongId, 8>>}
LiveInit ==
    /\ StartupState
    /\ call = NoCall
    /\ effects \in {<<SpawnInstance(p[1]), SpawnInstance(p[2])>> : p \in LivePairs}
    /\ trace = NoTrace

LiveBeginFrame(dt) ==
    /\ pc = "First"
    /\ Running("time")
    /\ time_delta' = dt
    /\ time_elapsed' = Min(time_elapsed + dt, MaxTime)
    /\ lastOp' = "time"
    /\ lockLog' = <<>>
    /\ Advance("time")
    /\ UNCHANGED <<holders, step, sideVars, syncVars, fontVars, poseVars, effects, obsVars>>

LiveNext ==
    \/ \E dt \in DeltaTimes : LiveBeginFrame(dt)
    \/ AppIdle
    \/ \E i \in 1 .. MaxEffects : AppRetrigger(i)
    \/ ExpandSys
    \/ RebuildSys
    \/ SyncSys
    \/ ResetTransformsSys
    \/ ResetColorsSys
    \/ \E kind \in SystemsOf("Effects") : EffectSys(kind)

\* The application's run loop schedules frame after frame: whenever a system
\* is due the scheduler runs it and goes on to the next.
SchedulerRuns == Len(pendingSys) > 0 /\ Advance(Head(pendingSys))
SpecLive == LiveInit /\ [][LiveNext]_vars /\ WF_schedVars(SchedulerRuns)

\* ---------------------------------------------------------------- gravity
\* Gravity entities a controller spawns: acceleration in pixels per clock
\* unit squared, no damping (gravity.rs:23-31).
GravityCatalog ==
    << [region |-> RegionAll, acceleration |-> <<0, 0 - 2>>, damping |-> 0],
       [region |-> RegionTopRow, acceleration |-> <<1, 0 - 1>>, damping |-> 0] >>

\* gravity.rs:49-65 on one cell: the velocity after the tick and the step it
\* adds to the translation.
GravityVelocity(p, dt, vel) ==
    <<vel[1] + p.acceleration[1] * dt, vel[2] + p.acceleration[2] * dt>>
GravityStep(p, dt, vel) ==
    <<GravityVelocity(p, dt, vel)[1] * dt, GravityVelocity(p, dt, vel)[2] * dt>>
GravityMember(g, e) ==
    g.id # 0 /\ g.active /\ RegionContains(GravityCatalog[g.id].region, ColOf(e), RowOf(e))

\* The controller spawns the Gravity entity and gives every cell a
\* CellVelocity (effects_browser.rs:292, 305-309), or switches it on or off.
GravitySpawn(id) ==
    /\ gravity.id = 0
    /\ gravity' = [gravity EXCEPT !.id = id, !.active = TRUE]
    /\ lastOp' = "gravity_spawn"
    /\ UNCHANGED <<syncVars, fontVars, poseVars, effects, timeVars, schedVars, obsVars, lockVars,
                   atlasLog, call, cursorVars, config_columns, atlasBuild, input, rnd, browser, twin, fg_atlas>>

GravitySetActive(on) ==
    /\ gravity.id # 0
    /\ gravity.active # on
    /\ gravity' = [gravity EXCEPT !.active = on]
    /\ lastOp' = "gravity_active"
    /\ UNCHANGED <<syncVars, fontVars, poseVars, effects, timeVars, schedVars, obsVars, lockVars,
                   atlasLog, call, cursorVars, config_columns, atlasBuild, input, rnd, browser, twin, fg_atlas>>

\* One frame in which the Gravity entity is the only effect: reset_transforms
\* (effects/mod.rs:92-100), then gravity_system (gravity.rs:33-68).
GravityFrame(dt) ==
    /\ gravity.id # 0
    /\ time_elapsed + dt <= MaxTime
    /\ time_delta' = dt
    /\ time_elapsed' = time_elapsed + dt
    /\ gravity' = [gravity EXCEPT
          !.velocity = [e \in CellIdx |->
              IF GravityMember(gravity, e)
              THEN GravityVelocity(GravityCatalog[gravity.id], dt, gravity.velocity[e])
              ELSE gravity.velocity[e]],
          !.travelled = [e \in CellIdx |->
              IF GravityMember(gravity, e)
              THEN <<gravity.travelled[e][1]
                        + GravityStep(GravityCatalog[gravity.id], dt, gravity.velocity[e])[1],
                     gravity.travelled[e][2]
                        + GravityStep(GravityCatalog[gravity.id], dt, gravity.velocity[e])[2]>>
              ELSE gravity.travelled[e]],
          !.ticks = IF gravity.active THEN gravity.ticks + 1 ELSE gravity.ticks]
    /\ transform' = [e \in CellIdx |->
          LET tf == ResetPose(base[e], transform[e])
          IN  IF GravityMember(gravity, e)
              THEN [tf EXCEPT
                      !.x = tf.x + GravityStep(GravityCatalog[gravity.id], dt, gravity.velocity[e])[1],
                      !.y = tf.y + GravityStep(GravityCatalog[gravity.id], dt, gravity.velocity[e])[2]]
              ELSE tf]
    /\ lastOp' = "gravity"
    /\ UNCHANGED <<syncVars, fontVars, base, effects, schedVars, obsVars, lockVars,
                   atlasLog, call, cursorVars, config_columns, atlasBuild, input, rnd, browser, twin, fg_atlas>>

GravityNext ==
    \/ \E id \in DOMAIN GravityCatalog : GravitySpawn(id)
    \/ \E on \in BOOLEAN : GravitySetActive(on)
    \/ \E dt \in DeltaTimes : GravityFrame(dt)

SpecGravity == SyncInit /\ [][GravityNext]_vars

\* ---------------------------------------------------------- two terminals
\* Effect entities a controller spawns for one of the terminals: a Scatter
\* (the instance of the catalog) or a Wave, with TargetTerminal<target>.
ScatterId == 4
WaveParams == [amplitude |-> 5, quarters_per_col |-> 1, speed |-> 1, horizontal |-> TRUE]
TwinSpawn(kind, target) ==
    [id |-> ScatterId, kind |-> kind, target |-> target, elapsed |-> 0, active |-> TRUE]

\* wave.rs:43-55 on one cell: amplitude * sin(TAU * (position / wavelength -
\* speed * t)), with the phase in quarter turns.
WaveApply(p, t, col, row, pose) ==
    LET position_along == IF p.horizontal THEN col ELSE row
        displacement ==
            MulDiv(p.amplitude, Sin4(p.quarters_per_col * position_along + 3 * p.speed * t), 100)
    IN  [pose EXCEPT !.y = pose.y + displacement]

\* The entities and cells a system registered for marker m iterates over.
\* scatter_system<T> asks for With<TargetTerminal<T>> and With<TerminalCell<T>>
\* (scatter.rs:43-48); wave_system and reset_transforms name no marker
\* (wave.rs:31-35, effects/mod.rs:92-94).
ScatterTargets(effs, m) == {i \in DOMAIN effs : effs[i].kind = "scatter" /\ effs[i].target = m}
ScatterCells(m) == {m}
WaveTargets(effs, m) == {i \in DOMAIN effs : effs[i].kind = "wave"}
WaveCells(m) == Markers
ResetCells(m) == Markers

TwinSystems == {<<name, m>> : name \in {"reset_transforms", "scatter", "wave"}, m \in Markers}

TwoSpawn(kind, target) ==
    /\ twin.pending = {}
    /\ Len(twin.effects) < MaxEffects
    /\ twin' = [twin EXCEPT !.effects = Append(twin.effects, TwinSpawn(kind, target)),
                            !.by = "none"]
    /\ lastOp' = "spawn"
    /\ UNCHANGED <<syncVars, fontVars, poseVars, effects, timeVars, schedVars, obsVars, lockVars,
                   atlasLog, call, cursorVars, config_columns, atlasBuild, input, rnd, browser,
                   gravity, fg_atlas>>

\* A frame: both plugins' systems are due (lib.rs:240-305).
TwoBeginFrame(dt) ==
    /\ twin.pending = {}
    /\ Len(twin.effects) > 0
    /\ time_elapsed + dt <= MaxTime
    /\ time_delta' = dt
    /\ time_elapsed' = time_elapsed + dt
    /\ twin' = [twin EXCEPT !.pending = TwinSystems, !.by = "none"]
    /\ lastOp' = "time"
    /\ UNCHANGED <<syncVars, fontVars, poseVars, effects, schedVars, obsVars, lockVars,
                   atlasLog, call, cursorVars, config_columns, atlasBuild, input, rnd, browser,
                   gravity, fg_atlas>>

\* reset_transforms as registered by the plugin of marker m
\* (TerminalSet::ResetTransforms, before every effect system).
TwoReset(m) ==
    /\ <<"reset_transforms", m>> \in twin.pending
    /\ twin' = [twin EXCEPT
          !.transform = [n \in Markers |->
              IF n \in ResetCells(m)
              THEN [e \in CellIdx |-> ResetPose(TwinBase(e), twin.transform[n][e])]
              ELSE twin.transform[n]],
          !.pending = twin.pending \ {<<"reset_transforms", m>>},
          !.by = m]
    /\ lastOp' = "reset_transforms"
    /\ UNCHANGED <<syncVars, fontVars, poseVars, effects, timeVars, schedVars, obsVars, lockVars,
                   atlasLog, call, cursorVars, config_columns, atlasBuild, input, rnd, browser,
                   gravity, fg_atlas>>

ResetsDone == \A m \in Markers : <<"reset_transforms", m>> \notin twin.pending

\* scatter_system::<m>: the prologue of every Scatter it iterates over, then
\* its cell loop over the cells it iterates over.
RECURSIVE TwinScatterPose(_, _, _, _, _)
TwinScatterPose(effs, m, i, e, pose) ==
    IF i > Len(effs)
    THEN pose
    ELSE TwinScatterPose(effs, m, i + 1, e,
            IF i \in ScatterTargets(effs, m) /\ effs[i].active
            THEN ScatterApply(Catalog[ScatterId], effs[i].elapsed,
                              LayoutFromConfig(StartFontSize), ColOf(e), RowOf(e), pose)
            ELSE pose)
TwoScatter(m) ==
    /\ <<"scatter", m>> \in twin.pending
    /\ ResetsDone
    /\ LET stepped == [i \in DOMAIN twin.effects |->
                          IF i \in ScatterTargets(twin.effects, m)
                          THEN StepOneShot(twin.effects[i], time_delta)
                          ELSE twin.effects[i]]
       IN  twin' = [twin EXCEPT
              !.effects = stepped,
              !.transform = [n \in Markers |->
                  IF n \in ScatterCells(m)
                  THEN [e \in CellIdx |->
                          IF \E i \in ScatterTargets(twin.effects, m) : twin.effects[i].active
                          THEN TwinScatterPose(stepped, m, 1, e, twin.transform[n][e])
                          ELSE twin.transform[n][e]]
                  ELSE twin.transform[n]],
              !.pending = twin.pending \ {<<"scatter", m>>},
              !.by = m]
    /\ lastOp' = "scatter"
    /\ UNCHANGED <<syncVars, fontVars, poseVars, effects, timeVars, schedVars, obsVars, lockVars,
                   atlasLog, call, cursorVars, config_columns, atlasBuild, input, rnd, browser,
                   gravity, fg_atlas>>

\* wave_system as registered by the plugin of marker m.
RECURSIVE TwinWavePose(_, _, _, _, _)
TwinWavePose(effs, m, i, e, pose) ==
    IF i > Len(effs)
    THEN pose
    ELSE TwinWavePose(effs, m, i + 1, e,
            IF i \in WaveTargets(effs, m)
            THEN WaveApply(WaveParams, time_elapsed, ColOf(e), RowOf(e), pose)
            ELSE pose)
TwoWave(m) ==
    /\ <<"wave", m>> \in twin.pending
    /\ ResetsDone
    /\ twin' = [twin EXCEPT
          !.transform = [n \in Markers |->
              IF n \in WaveCells(m)
              THEN [e \in CellIdx |-> TwinWavePose(twin.effects, m, 1, e, twin.transform[n][e])]
              ELSE twin.transform[n]],
          !.pending = twin.pending \ {<<"wave", m>>},
          !.by = m]
    /\ lastOp' = "wave"
    /\ UNCHANGED <<syncVars, fontVars, poseVars, effects, timeVars, schedVars, obsVars, lockVars,
                   atlasLog, call, cursorVars, config_columns, atlasBuild, input, rnd, browser,
                   gravity, fg_atlas>>

TwoNext ==
    \/ \E kind \in {"scatter", "wave"}, target \in Markers : TwoSpawn(kind, target)
    \/ \E dt \in DeltaTimes : TwoBeginFrame(dt)
    \/ \E m \in Markers : TwoReset(m)
    \/ \E m \in Markers : TwoScatter(m)
    \/ \E m \in Markers : TwoWave(m)

SpecTwo == SyncInit /\ [][TwoNext]_vars

\* ===================================================================== claims
\* C1: a sync pass that runs while the backend's generation equals the
\* last-synced generation changes nothing (no CellStyle, sprite color, tile
\* index, dirty marker, pending glyph or last-synced generation is written);
\* every pass leaves the two generations equal and only a flush separates
\* them again, so the second of two passes with no flush between performs
\* zero writes.
C1_SkippedSyncWritesNothing ==
    /\ [][(lastOp' = "sync" /\ flush_generation = sync_gen) =>
            /\ UNCHANGED <<cell_style, bg_color, fg_color, fg_index>>
            /\ UNCHANGED <<dirty, pending_glyphs, sync_gen>>
            /\ syncLog'.writes = NoWrites]_vars
    /\ [][lastOp' = "sync" => sync_gen' = flush_generation']_vars
    /\ [][(lastOp' # "flush" /\ flush_generation = sync_gen) =>
            flush_generation' = sync_gen']_vars

\* A skipped pass that left a dirty cell whose buffer content differs from
\* the stored style.
C1_Witness ==
    /\ lastOp = "sync"
    /\ syncLog.skipped
    /\ flush_generation > 0
    /\ \E i \in CellIdx : dirty[i] /\ cell_style[i] # SyncResolved(buffer[i])

C3_CompareBeforeWrite ==
    lastOp = "sync" =>
        /\ \A w \in syncLog.writes.style : w.old # w.new
        /\ \A w \in syncLog.writes.bg : w.old # w.new
        /\ \A w \in syncLog.writes.fg : w.old # w.new
        /\ \A w \in syncLog.writes.index : w.old # w.new

CellsWritten(writes) ==
    {w.cell : w \in writes.style} \cup {w.cell : w \in writes.bg}
        \cup {w.cell : w \in writes.fg} \cup {w.cell : w \in writes.index}

\* A pass that processed two dirty cells, wrote one and left the other, whose
\* values were already the stored ones, untouched.
C3_Witness ==
    /\ lastOp = "sync"
    /\ ~syncLog.skipped
    /\ \E i, j \in syncLog.processed :
          /\ SyncEntity(i) \notin CellsWritten(syncLog.writes)
          /\ SyncEntity(j) \in CellsWritten(syncLog.writes)
          /\ cell_style[i] # DefaultCellStyle

\* The reset phase is over and no effect system has run yet in this frame.
AtEffectsStart == pc = "Effects" /\ ran \cap SystemsOf("Effects") = {}

\* Every system of the Update schedule has run: the frame is complete.
FrameDone == pc = "First" /\ ran = UpdateSystems

\* C4. In every frame, once the reset phase is over and before any effect
\* system runs, the Transform of every cell equals its BaseTransform in
\* translation, rotation and scale, whatever the effects of earlier frames
\* left behind.
C4_PoseResetBeforeEffects ==
    AtEffectsStart => \A e \in CellIdx : transform[e] = base[e]

\* A frame in which the reset had something to undo on every cell, while an
\* effect that rotates and shrinks cells is running.
C4_Witness ==
    /\ AtEffectsStart
    /\ resetLog.pose = CellIdx
    /\ \E i \in DOMAIN effects : KindOf(effects[i]) = "scatter" /\ effects[i].elapsed > 0
    /\ \A e \in CellIdx : transform[e] = base[e]

\* The foreground colour a complete frame leaves on a cell when every colour
\* effect started from the base colour: the instances' blends in spawn order.
RECURSIVE FrameColor(_, _, _)
FrameColor(i, e, color) ==
    IF i > Len(effects)
    THEN color
    ELSE FrameColor(i + 1, e, InstColor(effects[i], time_elapsed, e, color))

InstContribution(inst, e, pose) ==
    IF IsOneShot(inst) /\ ~inst.active
    THEN pose
    ELSE InstPose(inst, time_elapsed, layout, e, pose)

\* C6. When two instances A and B were spawned in that order, the pose a
\* frame leaves on every cell is B's contribution applied to A's contribution
\* applied to the base pose.
C6_RegistrationOrder ==
    (FrameDone /\ Len(effects) = 2) =>
        \A e \in CellIdx :
            transform[e] =
                InstContribution(effects[2], e, InstContribution(effects[1], e, base[e]))

\* The delta an instance contributes, taken on the base pose, added to a pose:
\* translation offsets add, rotations about z compose, scales multiply.
Compose(pose, b, d) ==
    [x     |-> pose.x + (d.x - b.x),
     y     |-> pose.y + (d.y - b.y),
     rot   |-> pose.rot + (d.rot - b.rot),
     scale |-> MulDiv(pose.scale, d.scale, b.scale)]

RECURSIVE AdditiveFrame(_, _, _)
AdditiveFrame(i, e, pose) ==
    IF i > Len(effects)
    THEN pose
    ELSE AdditiveFrame(i + 1, e,
            Compose(pose, base[e], InstContribution(effects[i], e, base[e])))

\* C7. Every effect contributes additively: the pose a frame leaves on a cell
\* is the base pose with the delta of every running instance added; no
\* instance's delta is lost to an effect that ran after it.
C7_EffectsAreAdditive ==
    FrameDone => \A e \in CellIdx : transform[e] = AdditiveFrame(1, e, base[e])

\* The one-shot system of an instance's kind ran in this step.
OwnSystemRan(inst) == lastOp' = KindOf(inst)

\* C8. A one-shot instance starts Active with elapsed 0.  While Active, each
\* frame adds the frame's delta to elapsed (and only its own system does); it
\* is Active after the pass exactly when elapsed does not exceed the duration,
\* so the first frame in which elapsed exceeds the duration finishes it.  A
\* pass in which no instance of the kind stays Active moves no cell.  A
\* Finished instance that is not re-triggered keeps its elapsed and state, and
\* no instance is ever removed.
C8_OneShotLifecycle ==
    /\ \A i \in DOMAIN effects : effects[i] = SpawnInstance(effects[i].id)
    /\ [][ /\ DOMAIN effects' = DOMAIN effects
           /\ \A i \in DOMAIN effects :
                IsOneShot(effects[i]) =>
                    /\ effects'[i].id = effects[i].id
                    /\ (effects[i].active /\ OwnSystemRan(effects[i])) =>
                          /\ effects'[i].elapsed = effects[i].elapsed + time_delta
                          /\ effects'[i].active =
                                (effects'[i].elapsed <= Catalog[effects[i].id].duration)
                    /\ (effects[i].active /\ ~OwnSystemRan(effects[i])) =>
                          effects'[i] = effects[i]
                    /\ (~effects[i].active /\ lastOp' # "app_retrigger") =>
                          effects'[i] = effects[i]
                    /\ (OwnSystemRan(effects[i])
                        /\ \A j \in DOMAIN effects :
                              KindOf(effects[j]) = KindOf(effects[i]) => ~effects'[j].active) =>
                          transform' = transform
         ]_vars

\* The first run of an instance displaced cells, then finished in a frame that
\* left every cell at its base pose, and a later frame has passed since.
C8_Witness ==
    /\ trace.prev = <<>>
    /\ Len(trace.run) >= 2
    /\ trace.run[1].active /\ trace.run[1].pose # base
    /\ ~effects[1].active
    /\ effects[1].elapsed > Catalog[effects[1].id].duration
    /\ time_elapsed > effects[1].elapsed
    /\ lastOp = KindOf(effects[1])
    /\ transform = base

\* C9. After a Finished one-shot is re-triggered (elapsed 0, Active, the same
\* entity), its run repeats the run before: as long as the frames have the
\* same deltas, each frame leaves the same elapsed, the same state and the
\* same cell poses as the corresponding frame of the earlier run.
C9_ReplayIsIdentical ==
    \A k \in 1 .. Min(Len(trace.run), Len(trace.prev)) :
        (\A j \in 1 .. k : trace.run[j].dt = trace.prev[j].dt) =>
            trace.run[k] = trace.prev[k]

\* A replay that ran to its end, frame for frame like the run before it, and
\* displaced cells on the way.
C9_Witness ==
    /\ Len(trace.prev) >= 2
    /\ trace.run = trace.prev
    /\ trace.prev[1].active /\ trace.prev[1].pose # base
    /\ ~trace.run[Len(trace.run)].active
    /\ ~effects[1].active

\* C10. In every frame the systems run set after set: expand_font_atlas, then
\* rebuild_font_atlas, then sync_buffer_to_entities, then the two reset
\* systems, then the effect systems; a system runs only when every system of
\* the sets before it has run in this frame, and a frame runs them all.
C10_PhasesInOrder ==
    /\ "expand_font_atlas" \in ran => "app_tick" \in ran
    /\ "rebuild_font_atlas" \in ran => "expand_font_atlas" \in ran
    /\ "sync_buffer_to_entities" \in ran => "rebuild_font_atlas" \in ran
    /\ ran \cap {"reset_transforms", "reset_colors"} # {} =>
          "sync_buffer_to_entities" \in ran
    /\ ran \cap {EffectSystems[i] : i \in DOMAIN EffectSystems} # {} =>
          {"reset_transforms", "reset_colors"} \subseteq ran
    /\ (pc = "First" /\ lastOp # "init") =>
          ran = {"app_tick", "expand_font_atlas", "rebuild_font_atlas",
                 "sync_buffer_to_entities", "reset_transforms", "reset_colors"}
                \cup {EffectSystems[i] : i \in DOMAIN EffectSystems}

\* A complete frame in which the atlas was rebuilt for a new font size, sync
\* wrote cells and effects moved them.
C10_Witness ==
    /\ FrameDone
    /\ ~syncLog.skipped /\ syncLog.processed # {}
    /\ atlas_font_size # StartFontSize
    /\ \E e \in CellIdx : transform[e] # base[e]

\* C11: in every frame the writer's draw pass, its flush included, is over
\* before sync_buffer_to_entities reads the buffer: whatever the writer did
\* under the lock comes before the read in the record of the frame, a frame
\* in which the writer flushed is never skipped by the generation check, the
\* writer and sync never hold a guard together, and no guard outlives the
\* system that took it.
EventsOf(sys) == {i \in DOMAIN lockLog : lockLog[i][1] = sys}
EventAt(sys, event) == {i \in DOMAIN lockLog : lockLog[i] = <<sys, event>>}
WriterBeforeSync ==
    \A r \in EventAt("sync_buffer_to_entities", "read") :
        /\ \A w \in EventsOf("app_tick") : w < r
        /\ EventAt("app_tick", "draw") # {} =>
              /\ EventAt("app_tick", "flush") # {}
              /\ EventAt("app_tick", "unlock") # {}
FlushSeenBySync ==
    (lastOp = "sync_read" /\ EventAt("app_tick", "flush") # {}) =>
        /\ ~syncLog.skipped
        /\ sync_gen = flush_generation
GuardsAreScoped ==
    /\ Cardinality(holders) <= 1
    /\ \A sys \in holders : Running(sys) /\ step # "start"
C11_WriterCompletesBeforeSync ==
    /\ WriterBeforeSync
    /\ FlushSeenBySync
    /\ GuardsAreScoped
C11_Witness ==
    /\ lastOp = "sync_unlock"
    /\ holders = {}
    /\ EventAt("app_tick", "flush") # {}
    /\ ~syncLog.skipped

\* C12 (as stated): expanding the atlas never changes the tile index of a
\* character that was already in the glyph map, and the added characters
\* receive only indices no character had before.
Indices(map) == {map[c] : c \in DOMAIN map}
C12_ExpansionOnlyAppends ==
    lastOp = "expand" =>
        /\ \A c \in DOMAIN atlasLog.before : glyph_map[c] = atlasLog.before[c]
        /\ \A c \in atlasLog.added : glyph_map[c] \notin Indices(atlasLog.before)

\* C12 (amended): expanding the atlas adds exactly the pending characters the
\* font has an outline for and keeps every character that was in the glyph
\* map; a character's index after the expansion is its index before plus the
\* number of added characters that sort before it, so it is unchanged exactly
\* when no added character sorts before it, and the order of the indices of
\* the old characters is kept.
AddedBelow(c) == Cardinality({d \in atlasLog.added : d < c})
C12_ExpansionShiftsBySortOrder ==
    lastOp = "expand" =>
        /\ DOMAIN glyph_map = DOMAIN atlasLog.before \cup atlasLog.added
        /\ \A c \in atlasLog.added : HasOutline(c) /\ c \notin DOMAIN atlasLog.before
        /\ \A c \in DOMAIN atlasLog.before :
              glyph_map[c] = atlasLog.before[c] + AddedBelow(c)
        /\ \A c \in atlasLog.added :
              glyph_map[c] = Cardinality({d \in DOMAIN atlasLog.before : d < c})
                                + AddedBelow(c)
C12_Witness ==
    /\ lastOp = "expand"
    /\ 233 \in DOMAIN atlasLog.before
    /\ atlasLog.added = {161}
    /\ glyph_map[233] = atlasLog.before[233] + 1
    /\ glyph_map[161] = atlasLog.before[233]

\* C13: the glyph map is a function of the character set alone: whatever the
\* order in which the characters were met and however many expansions and
\* rebuilds came before, each character's index is its rank in the sorted set
\* of the characters of the map, and a rebuild, which keeps the character
\* set, gives back the same glyph map at any font size.
IndexIsRank ==
    \A c \in DOMAIN glyph_map :
        glyph_map[c] = Cardinality({d \in DOMAIN glyph_map : d < c})
C13_GlyphMapIsSortedRank ==
    [][/\ IndexIsRank'
       /\ lastOp' = "rebuild" => glyph_map' = glyph_map]_vars
C13_Witness ==
    /\ lastOp = "rebuild"
    /\ atlas_font_size # StartFontSize
    /\ 233 \in DOMAIN atlasLog.before
    /\ 161 \in atlasLog.added
    /\ glyph_map[161] < glyph_map[233]

\* C14: in a frame whose maintenance pass rebuilt the atlas for new
\* characters, once the sync phase is over every foreground sprite whose cell
\* displays a character of the new glyph map holds that character's index,
\* and so not an index the new map gives to another character.
SyncPhaseOver == pc = "ResetTransforms" /\ "sync_buffer_to_entities" \in ran
ExpandedThisFrame == "expand_font_atlas" \in ran /\ atlasLog.added # {}
ShowsOwnTile(e) ==
    FirstChar(buffer[e].symbol) \in DOMAIN glyph_map =>
        fg_index[e] = glyph_map[FirstChar(buffer[e].symbol)]
C14_TilesFreshAfterExpansion ==
    (SyncPhaseOver /\ ExpandedThisFrame) => \A e \in CellIdx : ShowsOwnTile(e)

\* C15: a character with an outline that sync met in the frame before is in
\* the glyph map after this frame's maintenance pass, and once this frame's
\* sync phase is over every cell that still displays it shows its own tile
\* and not the space tile.
MetLastFrame == IF ExpandedThisFrame THEN atlasLog.added ELSE {}
C15_NewGlyphShownNextFrame ==
    SyncPhaseOver =>
        \A c \in MetLastFrame :
            /\ c \in DOMAIN glyph_map
            /\ \A e \in CellIdx :
                  FirstChar(buffer[e].symbol) = c =>
                      /\ fg_index[e] = glyph_map[c]
                      /\ fg_index[e] # SpaceIndex(glyph_map)

\* C16: in a sync pass that is not skipped, a dirty cell whose symbol starts
\* with a character that is not in the glyph map gets the index of the space
\* tile (0 if the space had no tile) and its character joins the pending set
\* unless it is a space; the pass goes on: the other dirty cells get the
\* indices of their own characters, and nothing else is queued.
Unmapped(i) == FirstChar(buffer[i].symbol) \notin DOMAIN glyph_map
QueuedBy(cells) ==
    {FirstChar(buffer[i].symbol) : i \in {j \in cells : Unmapped(j)}} \ {Space}
C16_UnmappedGlyphFallsBackToSpace ==
    [][(lastOp' = "sync" /\ ~syncLog'.skipped) =>
          /\ \A i \in DirtyIndices(dirty) :
                IF Unmapped(i)
                THEN fg_index'[i] = (IF Space \in DOMAIN glyph_map
                                     THEN glyph_map[Space] ELSE 0)
                ELSE fg_index'[i] = glyph_map[FirstChar(buffer[i].symbol)]
          /\ pending_glyphs' = pending_glyphs \cup QueuedBy(DirtyIndices(dirty))]_vars
C16_Witness ==
    /\ lastOp = "sync"
    /\ ~syncLog.skipped
    /\ \E i, j \in syncLog.processed :
          /\ buffer[i].symbol = <<9731>>
          /\ fg_index[i] = glyph_map[Space]
          /\ 9731 \in pending_glyphs
          /\ buffer[j].symbol = <<65>>
          /\ fg_index[j] = glyph_map[65]

\* C17: EffectRegion::contains(col, row) returns true exactly when (col, row)
\* lies in no exclude rectangle and the include list is empty or (col, row)
\* lies in some include rectangle, a rectangle containing the cells with
\* rect.col <= col < rect.col + width and rect.row <= row < rect.row + height.
InRect(rect, col, row) ==
    /\ rect.col <= col /\ col < rect.col + rect.width
    /\ rect.row <= row /\ row < rect.row + rect.height
InSomeRect(rects, col, row) == \E i \in 1 .. Len(rects) : InRect(rects[i], col, row)
InRegion(region, col, row) ==
    /\ ~InSomeRect(region.exclude, col, row)
    /\ Len(region.include) = 0 \/ InSomeRect(region.include, col, row)
C17_ContainsIsIncludeMinusExclude ==
    call.result # "none" =>
        call.result = (IF InRegion(call.region, call.col, call.row) THEN "true" ELSE "false")

\* C18: an effect system leaves alone every cell that lies in the region of
\* none of the instances of its kind: the cell's pose and the colour of its
\* foreground sprite are after the system's pass what they were before it, so
\* an instance changes only cells that its own region contains.
OutsideAll(kind, e) ==
    \A i \in 1 .. Len(effects) :
        KindOf(effects[i]) = kind =>
            ~RegionContains(Catalog[effects[i].id].region, ColOf(e), RowOf(e))
C18_OnlyRegionCellsChange ==
    [][\A kind \in SystemsOf("Effects") :
          lastOp' = kind =>
              \A e \in CellIdx :
                  OutsideAll(kind, e) =>
                      /\ transform'[e] = transform[e]
                      /\ fg_color'[e] = fg_color[e]]_vars
C18_Witness ==
    /\ pc = "First"
    /\ \E i, j \in 1 .. Len(effects) : KindOf(effects[i]) = "knock" /\ KindOf(effects[j]) = "tint"
    /\ transform[0] = base[0]
    /\ transform[3] # base[3]
    /\ fg_color[0] # BaseColor(cell_style[0])
    /\ fg_color[3] = BaseColor(cell_style[3])

\* C19: the generation counter starts at 0, equals the number of flushes at
\* every moment, goes up by exactly 1 on a flush and is left alone by every
\* other operation of the backend (draw, clear, clear_region, the cursor
\* operations and the size queries); it never goes down.
C19_GenerationCountsFlushes ==
    [][/\ flush_generation' = flushes'
       /\ flush_generation' >= flush_generation
       /\ IF lastOp' = "flush" /\ flushes' # flushes
          THEN flush_generation' = flush_generation + 1
          ELSE flush_generation' = flush_generation]_vars
C19_Witness ==
    /\ flush_generation = 2
    /\ flushes = 2
    /\ lastOp = "clear_region"
    /\ cursor.x = 1 /\ cursor.y = 1 /\ cursor.visible
    /\ \E i \in CellIdx : buffer[i] # DefaultCell

WrittenCells(writes) ==
    {w.cell : w \in writes.style} \cup {w.cell : w \in writes.bg}
        \cup {w.cell : w \in writes.fg} \cup {w.cell : w \in writes.index}
C21_OnlyDirtyCellsWritten ==
    [][lastOp' = "sync" =>
          /\ syncLog'.processed \subseteq {i \in DOMAIN dirty : dirty[i]}
          /\ \A e \in CellIdx :
                ~dirty[e] =>
                    /\ e \notin WrittenCells(syncLog'.writes)
                    /\ cell_style'[e] = cell_style[e]
                    /\ bg_color'[e] = bg_color[e]
                    /\ fg_color'[e] = fg_color[e]
                    /\ fg_index'[e] = fg_index[e]]_vars
C21_Witness ==
    /\ lastOp = "sync"
    /\ ~syncLog.skipped
    /\ syncLog.processed = {0}
    /\ WrittenCells(syncLog.writes) = {0}
    /\ sync_gen = 2

\* C22: a dirty index outside the buffer, or one whose (col, row) has no cell
\* in the grid index, is skipped: the pass writes nothing on its account and
\* completes, and every other dirty index of the pass is processed, so that
\* afterwards its cell shows what the buffer holds at that index.
Malformed(i) ==
    \/ i \notin DOMAIN buffer
    \/ CellEntityIndexGet(i % config_columns, i \div config_columns) = NoEntity
WellFormedDirty == {i \in DOMAIN dirty : dirty[i] /\ ~Malformed(i)}
MalformedDirty == {i \in DOMAIN dirty : dirty[i] /\ Malformed(i)}
CellOf(i) == CellEntityIndexGet(i % config_columns, i \div config_columns)
Degenerate(region) ==
    /\ Len(region.include) > 0
    /\ \A i \in 1 .. Len(region.include) :
          region.include[i].width = 0 \/ region.include[i].height = 0
OriginOutside(p) ==
    /\ "origin_col" \in DOMAIN p
    /\ ~(p.origin_col \in 0 .. (Columns - 1) /\ p.origin_row \in 0 .. (Rows - 1))
SoundOnly(effs) == SelectSeq(effs, LAMBDA inst : ~Degenerate(Catalog[inst.id].region))
EffectKinds == {EffectSystems[i] : i \in DOMAIN EffectSystems}
C23_DegenerateEffectIsNoOp ==
    [][(pc = "Effects" /\ lastOp' \in EffectKinds \cup {"panic"}) =>
          /\ lastOp' # "panic"
          /\ \A e \in CellIdx :
                /\ transform'[e] =
                      SystemPose(lastOp', SoundOnly(effects), SoundOnly(effects'), 1,
                                 time_elapsed, layout, e, transform[e])
                /\ fg_color'[e] =
                      SystemColor(lastOp', SoundOnly(effects), SoundOnly(effects'), 1,
                                  time_elapsed, e, fg_color[e])]_vars

\* C24: requests for expansion are coalesced.  However many insertions filled
\* the pending set, the maintenance pass that drains it builds at most one
\* atlas; in the glyph map it leaves, every requested character the font
\* renders is present, no two characters share a tile and the tiles are
\* numbered without gaps (no character is laid out twice); and the pass
\* completes.
OneTilePerChar(map) ==
    /\ \A c, d \in DOMAIN map : c # d => map[c] # map[d]
    /\ {map[c] : c \in DOMAIN map} = 0 .. (Cardinality(DOMAIN map) - 1)
C24_RequestsCoalesced ==
    [][lastOp' = "expand" =>
          /\ atlasLog'.builds <= 1
          /\ DOMAIN glyph_map' = DOMAIN glyph_map \cup {c \in pending_glyphs : HasOutline(c)}
          /\ OneTilePerChar(glyph_map')
          /\ pending_glyphs' = {}]_vars
C24_Witness ==
    /\ lastOp = "expand"
    /\ atlasLog.served = 3
    /\ atlasLog.drained = {161, 233}
    /\ atlasLog.builds = 1
    /\ {161, 233} \subseteq DOMAIN glyph_map

\* C25: pending characters without an outline in the font are dropped before
\* the rebuild and do not enter the glyph map through expansion; when all of
\* them are dropped the pass builds no atlas and leaves the glyph map and the
\* dirty markers as they were; and the pending set is empty after every
\* pass.
C25_UnrenderableDropped ==
    [][lastOp' = "expand" =>
          /\ \A c \in pending_glyphs :
                ~HasOutline(c) => c \notin DOMAIN glyph_map' \ DOMAIN glyph_map
          /\ (\A c \in pending_glyphs : ~HasOutline(c)) =>
                /\ glyph_map' = glyph_map
                /\ atlasLog'.builds = 0
                /\ dirty' = dirty
          /\ pending_glyphs' = {}]_vars
C25_Witness ==
    /\ lastOp = "expand"
    /\ atlasLog.drained = {9731}
    /\ atlasLog.builds = 0
    /\ glyph_map = atlasLog.before
    /\ \E i \in DOMAIN dirty : ~dirty[i]

\* C26 (as stated): the glyph map of a build holds only the requested
\* characters that the font has a glyph for.
Requested == {atlasBuild.chars[i] : i \in DOMAIN atlasBuild.chars}
Built == atlasBuild.out # <<>>
OutGeometry == atlasBuild.out[1].geometry
OutPixels == atlasBuild.out[1].pixels
C27_GlyphPixelsStayInTile ==
    Built =>
        /\ OutGeometry.rows * ATLAS_COLS >= Len(atlasBuild.chars)
        /\ (OutGeometry.rows - 1) * ATLAS_COLS < Max(Len(atlasBuild.chars), 1)
        /\ OutGeometry.stride_w = OutGeometry.cell_w + OutGeometry.pad
        /\ OutGeometry.stride_h = OutGeometry.cell_h + OutGeometry.pad
        /\ \A i \in DOMAIN OutPixels :
              \A p \in OutPixels[i] :
                 /\ p[1] >= (i % 16) * OutGeometry.stride_w
                 /\ p[1] < ((i % 16) + 1) * OutGeometry.stride_w
                 /\ p[2] >= (i \div 16) * OutGeometry.stride_h
                 /\ p[2] < ((i \div 16) + 1) * OutGeometry.stride_h
                 /\ p[1] \in 0 .. (OutGeometry.atlas_width - 1)
                 /\ p[2] \in 0 .. (OutGeometry.atlas_height - 1)
        /\ \A i, j \in DOMAIN OutPixels : i # j => OutPixels[i] \cap OutPixels[j] = {}
C27_Witness ==
    /\ Built
    /\ lastOp = "build"
    /\ Len(atlasBuild.chars) = 19
    /\ OutGeometry.rows = 2
    /\ atlasBuild.shape.w > OutGeometry.stride_w
    /\ Cardinality(OutPixels[16]) = OutGeometry.stride_w * OutGeometry.stride_h
    /\ <<0, OutGeometry.stride_h>> \in OutPixels[16]

\* C28: when TerminalConfig.font_size differs from the atlas's, the rebuild
\* check rebuilds the atlas with exactly the characters it held, recomputes
\* the layout and the translation of every cell's base and working pose, and
\* records the new size; when the size is unchanged the check changes
\* nothing.  After the check the two sizes agree, so one change of the size
\* is answered by one rebuild.
C28_RebuildOnSizeChange ==
    [][lastOp' = "rebuild" =>
          /\ IF config_font_size # atlas_font_size
             THEN /\ DOMAIN glyph_map' = DOMAIN glyph_map
                  /\ OneTilePerChar(glyph_map')
                  /\ layout' = LayoutFromConfig(config_font_size)
                  /\ \A e \in CellIdx :
                        /\ base'[e].x = WorldX(layout', ColOf(e))
                        /\ base'[e].y = WorldY(layout', RowOf(e))
                        /\ transform'[e].x = base'[e].x
                        /\ transform'[e].y = base'[e].y
             ELSE UNCHANGED <<glyph_map, layout, base, transform, atlas_font_size>>
          /\ atlas_font_size' = config_font_size
          /\ UNCHANGED <<config_font_size, pending_glyphs, buffer, dirty>>]_vars
C28_Witness ==
    /\ lastOp = "rebuild"
    /\ atlas_font_size = 40
    /\ layout = LayoutFromConfig(40)
    /\ 233 \in DOMAIN glyph_map
    /\ transform[3].rot # 0
    /\ transform[3].x = base[3].x
    /\ base[3] # SpawnPose(LayoutFromConfig(StartFontSize), 3)

\* C29: a cell's base pose is written by the font-size rebuild only: a step
\* that changes it is a pass of rebuild_font_atlas that found the size
\* changed; sync, the reset phase, expansion, the effect systems and the
\* application leave it as it is.
C29_BasePoseWrittenByRebuildOnly ==
    [][(\E e \in CellIdx : base'[e] # base[e]) =>
          /\ lastOp' = "rebuild"
          /\ config_font_size # atlas_font_size]_vars
C29_Witness ==
    /\ lastOp \in EffectKinds
    /\ atlas_font_size = 40
    /\ \E e \in CellIdx :
          /\ transform[e] # base[e]
          /\ base[e] = SpawnPose(LayoutFromConfig(40), e)
          /\ base[e] # SpawnPose(LayoutFromConfig(StartFontSize), e)
    /\ atlasLog.added # {}
    /\ ~syncLog.skipped

\* C30: key events reach the consumer of the input queue in the order they
\* were produced, each once: what the consumer has popped, followed by what
\* is queued, followed by what forward_input has yet to read, is at every
\* moment the sequence of produced events without the key releases and the
\* keys that have no terminal mapping, each with the code and kind of its
\* key.
Passes(event) ==
    /\ event.state = "Pressed"
    /\ ~(event.key_code \in {"ShiftLeft", "ContextMenu"} /\ event.text = "")
IdsOf(seq) == [i \in 1 .. Len(seq) |-> seq[i].of]
EventIds(seq) == [i \in 1 .. Len(seq) |-> seq[i].id]
OnTheWay == input.consumed \o input.events
C30_InputInOrderExactlyOnce ==
    /\ IdsOf(OnTheWay) \o EventIds(SelectSeq(Unread(input.messages), Passes))
          = EventIds(SelectSeq(input.produced, Passes))
    /\ \A i \in 1 .. Len(OnTheWay) :
          /\ OnTheWay[i].code = bevy_keycode_to_terminput(input.produced[OnTheWay[i].of])
          /\ OnTheWay[i].kind =
                (IF input.produced[OnTheWay[i].of].repeat THEN "Repeat" ELSE "Press")
    /\ \A i \in 1 .. Len(input.messages) : ~input.messages[i].read => input.messages[i].age = 0
C30_Witness ==
    /\ lastOp = "handle_input"
    /\ Len(input.produced) = 3
    /\ input.produced[1].key_code = "ShiftLeft"
    /\ input.produced[3].state = "Released"
    /\ Len(input.consumed) = 1
    /\ input.consumed[1].of = 2
    /\ input.consumed[1].modifiers = {"SHIFT"}
    /\ input.events = <<>>

\* C38: clear_region completes for every clear type and every cursor
\* position set_cursor_position accepts, positions outside the grid
\* included; it resets only cells of the buffer and leaves the length of the
\* buffer and the generation counter as they were.
C38_ClearRegionNeverFails ==
    [][lastOp' \in {"clear_region", "panic"} =>
          /\ lastOp' # "panic"
          /\ DOMAIN buffer' = DOMAIN buffer
          /\ flush_generation' = flush_generation
          /\ \A i \in DOMAIN buffer : buffer'[i] \in {buffer[i], DefaultCell}]_vars

\* C39: GridRect::contains returns the half-open membership of the cell,
\* rect.col <= col < rect.col + width and rect.row <= row < rect.row + height
\* with sums that do not wrap, for every rectangle of 16-bit fields, also
\* when a sum exceeds 65535.
SingleRect == Len(call.region.include) = 1 /\ Len(call.region.exclude) = 0
C39_RectContainsNeverWraps ==
    (call.result # "none" /\ SingleRect) =>
        call.result =
            (IF InRect(call.region.include[1], call.col, call.row) THEN "true" ELSE "false")


CollapseRuns == Len(effects) > 0 /\ KindOf(effects[1]) = "collapse"
CollapseFall(k, e) == base[e].y - trace.run[k].pose[e].y
CollapseDelay(e) == RowOf(e) * Catalog[effects[1].id].stagger_per_row
C33_CollapseFallsByRowDelay ==
    /\ CollapseApply([gravity |-> 2, stagger_per_row |-> 1], 20, 10,
                     [x |-> 0, y |-> 0, rot |-> 0, scale |-> 100])
          = [x |-> 0, y |-> 0 - 100, rot |-> 0, scale |-> 100]
    /\ CollapseRuns =>
          \A k \in DOMAIN trace.run :
             trace.run[k].active =>
                \A e \in CellIdx :
                   /\ trace.run[k].pose[e] = [base[e] EXCEPT !.y = base[e].y - CollapseFall(k, e)]
                   /\ CollapseDelay(e) >= trace.run[k].elapsed => CollapseFall(k, e) = 0
                   /\ CollapseDelay(e) < trace.run[k].elapsed =>
                         2 * CollapseFall(k, e) =
                            Catalog[effects[1].id].gravity
                               * (trace.run[k].elapsed - CollapseDelay(e))
                               * (trace.run[k].elapsed - CollapseDelay(e))
                   /\ (k > 1 /\ trace.run[k - 1].active) =>
                         CollapseFall(k, e) >= CollapseFall(k - 1, e)
C33_Witness ==
    /\ CollapseRuns
    /\ Len(trace.run) >= 2
    /\ trace.run[1].active /\ trace.run[2].active
    /\ \E e \in CellIdx :
          /\ RowOf(e) = 1
          /\ CollapseFall(1, e) = 0
          /\ CollapseFall(2, e) > 0
    /\ \E e \in CellIdx : RowOf(e) = 0 /\ CollapseFall(2, e) > CollapseFall(1, e) /\ CollapseFall(1, e) > 0

\* C35: in the effects browser a one-shot effect that has Finished is put
\* back to elapsed 0 and Active only by the user toggling its entry; in a
\* frame without a key event it stays Finished.
C35_ResetOnlyByToggle ==
    [][\A i \in DOMAIN effects, j \in DOMAIN effects' :
          (effects[i].id = effects'[j].id /\ ~effects[i].active /\ effects'[j].active) =>
              /\ lastOp' = "browser"
              /\ browser'.key = "toggle"
              /\ BrowserEntries[browser.selected] = effects[i].id]_vars

\* C36: with every frame's delta time at least one clock unit and a finite
\* duration, every Active one-shot effect becomes Finished, whatever the
\* other instance does.
C36_ActiveOneShotFinishes ==
    /\ effects[1].active ~> ~effects[1].active
    /\ effects[2].active ~> ~effects[2].active

\* C34: while a Gravity instance is active the displacement of a member cell
\* from its base pose accumulates velocity times delta time on every tick, so
\* it is the sum of the per-tick steps made so far; an inactive instance
\* leaves the pose where it was.
C34_GravityIntegratesPosition ==
    \A e \in CellIdx :
        <<transform[e].x - base[e].x, transform[e].y - base[e].y>> = gravity.travelled[e]

\* C37: at the end of every tick, after any sequence of expansions, font-size
\* rebuilds and sync passes, the tile index of every foreground sprite is
\* smaller than the number of tiles of the atlas the sprite points to.
C37_TileIndexInAtlas ==
    pc = "First" => \A e \in CellIdx : fg_index[e] < fg_atlas[e]
C37_Witness ==
    /\ pc = "First"
    /\ atlas_font_size # StartFontSize
    /\ \E e \in CellIdx : fg_index[e] >= Cardinality(DOMAIN StartupGlyphMap)
    /\ \A e \in CellIdx : fg_index[e] < fg_atlas[e]

\* C32: with two terminal instances in one application, a system of one
\* instance never modifies the cells of the other, and a terminal that no
\* effect instance is targeted at has every cell at its base pose.
C32_TerminalsIsolated ==
    [][\A m \in Markers :
          /\ twin'.by = m =>
                twin'.transform[OtherMarker(m)] = twin.transform[OtherMarker(m)]
          /\ (\A i \in DOMAIN twin'.effects : twin'.effects[i].target # m) =>
                \A e \in CellIdx : twin'.transform[m][e] = TwinBase(e)]_vars

=============================================================================
